---- MODULE Spec2Model ----
(***************************************************************************)
(* taiwan-stock-monitor: the per-market synchronisation (listing source,   *)
(* download worker pool, cache, store upsert, change detection), the       *)
(* orchestrator's market loop and the notifier.                            *)
(*                                                                         *)
(* Text is modelled as a sequence of tokens: a token is one character, or  *)
(* an opaque chunk of characters (".TW", "SK HYNIX") that no scan looks    *)
(* into.                                                                   *)
(***************************************************************************)
EXTENDS Integers, Sequences, FiniteSets, TLC

(***************************************************************************)
(* Bounds of the model                                                     *)
(***************************************************************************)
MaxRuns == 2
MaxDay == 2
MaxCalls == 3
MaxReports == 3

(***************************************************************************)
(* Program constants                                                       *)
(***************************************************************************)
DATA_EXPIRY_SECONDS == 86400
threshold == 3000

\* an optional value is a sequence of length 0 or 1
None == << >>
Some(v) == <<v>>

(***************************************************************************)
(* Text helpers (Python str methods on token sequences)                    *)
(***************************************************************************)
Digits == {"0", "1", "2", "3", "4", "5", "6", "7", "8", "9"}
UpperLetters == {"A", "B", "C", "D", "E", "F", "G", "H", "I", "J", "K", "L", "M",
                 "N", "O", "P", "Q", "R", "S", "T", "U", "V", "W", "X", "Y", "Z"}
LowerLetters == {"a", "b", "c", "d", "e", "f", "g", "h", "i", "j", "k", "l", "m",
                 "n", "o", "p", "q", "r", "s", "t", "u", "v", "w", "x", "y", "z"}

UpperChar(c) ==
    CASE c = "a" -> "A" [] c = "b" -> "B" [] c = "c" -> "C" [] c = "d" -> "D"
      [] c = "e" -> "E" [] c = "f" -> "F" [] c = "g" -> "G" [] c = "h" -> "H"
      [] c = "i" -> "I" [] c = "j" -> "J" [] c = "k" -> "K" [] c = "l" -> "L"
      [] c = "m" -> "M" [] c = "n" -> "N" [] c = "o" -> "O" [] c = "p" -> "P"
      [] c = "q" -> "Q" [] c = "r" -> "R" [] c = "s" -> "S" [] c = "t" -> "T"
      [] c = "u" -> "U" [] c = "v" -> "V" [] c = "w" -> "W" [] c = "x" -> "X"
      [] c = "y" -> "Y" [] c = "z" -> "Z" [] OTHER -> c

StrUpper(s) == [i \in 1..Len(s) |-> UpperChar(s[i])]

AlnumChars == Digits \cup UpperLetters \cup LowerLetters

\* str.isalnum()
IsAlnum(s) ==
    /\ Len(s) > 0
    /\ \A i \in 1..Len(s) : s[i] \in AlnumChars

RECURSIVE LStrip(_)
LStrip(s) == IF s # <<>> /\ Head(s) = " " THEN LStrip(Tail(s)) ELSE s

RECURSIVE RStrip(_)
RStrip(s) == IF s # <<>> /\ s[Len(s)] = " " THEN RStrip(SubSeq(s, 1, Len(s) - 1)) ELSE s

Strip(s) == RStrip(LStrip(s))

\* kw in s
Contains(s, kw) ==
    \E i \in 1..(Len(s) - Len(kw) + 1) : SubSeq(s, i, i + Len(kw) - 1) = kw

\* s[-n:]
LastN(s, n) == IF Len(s) <= n THEN s ELSE SubSeq(s, Len(s) - n + 1, Len(s))

RECURSIVE ZFill(_, _)
ZFill(s, n) == IF Len(s) >= n THEN s ELSE ZFill(<<"0">> \o s, n)

IsDigitChar(c) == c \in Digits

Range(f) == {f[i] : i \in DOMAIN f}

\* list(S) of a Python set: the elements in one fixed order; the order has
\* no meaning (see NextSubmitted)
RECURSIVE SetToList(_)
SetToList(S) ==
    IF S = {} THEN <<>>
    ELSE LET x == CHOOSE y \in S : TRUE IN <<x>> \o SetToList(S \ {x})

(***************************************************************************)
(* The store: a table is a bag of rows (row |-> number of copies), so that *)
(* a duplicate row is representable.                                       *)
(***************************************************************************)
EmptyTable == << >>

Copies(table, r) == IF r \in DOMAIN table THEN table[r] ELSE 0

\* PRIMARY KEY (date, symbol) of stock_prices, PRIMARY KEY symbol of stock_info
PrimaryKey(name, r) ==
    IF name = "stock_prices" THEN <<r.date, r.symbol>> ELSE <<r.symbol>>

\* (mutant) the key conflict is not seen: the row is appended
PlainInsertRow(table, name, row) ==
    [r \in DOMAIN table \cup {row} |-> Copies(table, r) + (IF r = row THEN 1 ELSE 0)]

\* (mutant) the new row replaces every row of its symbol
InsertReplacingSymbol(table, name, row) ==
    LET keep == {r \in DOMAIN table : r.symbol # row.symbol}
    IN  [r \in keep \cup {row} |-> IF r = row THEN 1 ELSE table[r]]

\* INSERT OR REPLACE INTO a table with a primary key: the rows in conflict
\* with the new row are deleted, then the row is inserted
InsertOrReplaceRow(table, name, row) ==
    LET keep == {r \in DOMAIN table : PrimaryKey(name, r) # PrimaryKey(name, row)}
    IN  [r \in keep \cup {row} |-> IF r = row THEN 1 ELSE table[r]]

RECURSIVE insert_or_replace(_, _, _)
insert_or_replace(table, name, data_iter) ==
    IF data_iter = <<>> THEN table
    ELSE insert_or_replace(InsertOrReplaceRow(table, name, Head(data_iter)),
                           name, Tail(data_iter))

RECURSIVE SumCopies(_, _)
SumCopies(table, S) ==
    IF S = {} THEN 0
    ELSE LET r == CHOOSE x \in S : TRUE IN table[r] + SumCopies(table, S \ {r})

\* SELECT COUNT(*) FROM table
RowCount(table) == SumCopies(table, DOMAIN table)

\* SELECT COUNT(*) FROM table WHERE <primary key> = k
KeyCount(table, name, k) ==
    SumCopies(table, {r \in DOMAIN table : PrimaryKey(name, r) = k})

(***************************************************************************)
(* Listing sources.  What the remote site serves is an input: a table of   *)
(* raw rows per source.  A fetch either yields the table or fails with a   *)
(* network/parse error.                                                    *)
(***************************************************************************)
\* the outcome of a request: the table served, or a network/parse error
FetchFailed == [ok |-> FALSE, table |-> <<>>]
Fetched(table) == [ok |-> TRUE, table |-> table]

InfoRow(symbol, name) == [symbol |-> symbol, name |-> name]

\* ---- TW: downloader_tw.get_tw_stock_list ----
url_configs ==
    << [name |-> "listed", suffix |-> ".TW"],
       [name |-> "otc",    suffix |-> ".TWO"],
       [name |-> "etf",    suffix |-> ".TW"],
       [name |-> "rotc",   suffix |-> ".TWO"] >>

\* the tables served by isin.twse.com.tw: a header-like row, a padded code,
\* an ETF, and one code listed under two names
TwUpstream(src) ==
    CASE src = "listed" -> << [code |-> <<"n", "a", "n">>, name |-> <<"n", "a", "n">>],
                              [code |-> <<"2", "3", "3", "0", " ">>, name |-> <<"T", "S">>] >>
      [] src = "otc"    -> << [code |-> <<"6", "4", "8", "8">>, name |-> <<"G", "W">>] >>
      [] src = "etf"    -> << [code |-> <<"2", "3", "3", "0">>, name |-> <<"E", "T", "F">>] >>
      [] OTHER          -> << >>

TwSources == {url_configs[i].name : i \in 1..Len(url_configs)}

\* the rows of one table that pass the code filter, as (symbol, name)
RECURSIVE TwScanRows(_, _)
TwScanRows(rows, suffix) ==
    IF rows = <<>> THEN <<>>
    ELSE LET code == Strip(Head(rows).code)
             name == Strip(Head(rows).name)
             symbol == code \o <<suffix>>
         IN  IF IsAlnum(code) /\ Len(code) >= 4
             THEN <<<<symbol, name>>>> \o TwScanRows(Tail(rows), suffix)
             ELSE TwScanRows(Tail(rows), suffix)

\* for cfg in url_configs: a source that fails adds nothing
RECURSIVE TwScanConfigs(_, _)
TwScanConfigs(cfgs, ok) ==
    IF cfgs = <<>> THEN <<>>
    ELSE LET cfg == Head(cfgs)
         IN  (IF cfg.name \in ok THEN TwScanRows(TwUpstream(cfg.name), cfg.suffix) ELSE <<>>)
             \o TwScanConfigs(Tail(cfgs), ok)

\* stock_list, for every set ok of sources whose request and parse succeed
TwStockList == [ok \in SUBSET TwSources |-> TwScanConfigs(url_configs, ok)]

\* the INSERT OR REPLACE INTO stock_info of each appended entry, in order
InfoRows(stock_list) ==
    [i \in 1..Len(stock_list) |-> InfoRow(stock_list[i][1], stock_list[i][2])]

get_tw_stock_list(ok, info) ==
    LET stock_list == TwStockList[ok]
        unique_items == SetToList(Range(stock_list))
    IN  [items |-> unique_items,
         info |-> insert_or_replace(info, "stock_info", InfoRows(stock_list))]

\* ---- HK: downloader_hk ----
normalize_code5_any(s) ==
    LET digits == SelectSeq(s, IsDigitChar)
    IN  IF digits # <<>> THEN ZFill(LastN(digits, 5), 5) ELSE <<>>

normalize_code4_any(s) ==
    LET digits == SelectSeq(s, IsDigitChar)
    IN  IF digits # <<>> THEN ZFill(LastN(digits, 4), 4) ELSE <<>>

to_symbol_yf(code) == normalize_code4_any(code) \o <<".HK">>

\* the three Chinese keywords are written as the opaque tokens NIUXIONG,
\* QUANZHENG and LUNZHENG
bad_kw ==
    { <<"C", "B", "B", "C">>, <<"W", "A", "R", "R", "A", "N", "T">>,
      <<"R", "I", "G", "H", "T", "S">>, <<"E", "T", "F">>, <<"E", "T", "N">>,
      <<"R", "E", "I", "T">>, <<"B", "O", "N", "D">>, <<"T", "R", "U", "S", "T">>,
      <<"F", "U", "N", "D">>, <<"NIUXIONG">>, <<"QUANZHENG">>, <<"LUNZHENG">> }

\* (mutant) the name is not upper-cased before the keywords are looked for
classify_security_as_written(name) ==
    IF \E kw \in bad_kw : Contains(name, kw) THEN "Exclude" ELSE "Common Stock"

classify_security(name) ==
    LET n == StrUpper(name)
    IN  IF \E kw \in bad_kw : Contains(n, kw) THEN "Exclude" ELSE "Common Stock"

\* the spreadsheets hkex.com.hk can serve
HkTables ==
    { << [code |-> <<"1">>, name |-> <<"C", "K", " ">>],
         [code |-> <<"2", "8", "0", "0">>, name |-> <<"T", " ", "F", "u", "n", "d">>] >>,
      << [code |-> <<"1">>, name |-> <<"C", "K", "H">>],
         [code |-> <<"1", "0", "0", "0", "1">>, name |-> <<"A", "L">>],
         [code |-> <<"-">>, name |-> <<"N", "A">>] >> }

HkFetches == {Fetched(t) : t \in HkTables} \cup {FetchFailed}

\* the rows kept, as [code5, name]
RECURSIVE HkScanRows(_)
HkScanRows(rows) ==
    IF rows = <<>> THEN <<>>
    ELSE LET name == Strip(Head(rows).name)
             code5 == normalize_code5_any(Head(rows).code)
         IN  IF classify_security(name) = "Common Stock" /\ code5 # <<>>
             THEN <<<<code5, name>>>> \o HkScanRows(Tail(rows))
             ELSE HkScanRows(Tail(rows))

HkStockList == [t \in HkTables |-> HkScanRows(t)]

\* stock_info is keyed by to_symbol_yf(code5)
HkInfoRows(stock_list) ==
    [i \in 1..Len(stock_list) |-> InfoRow(to_symbol_yf(stock_list[i][1]), stock_list[i][2])]

\* (mutant) the except branch does not look at the backup file
get_hk_stock_list_no_backup(fetch, info, bk) ==
    IF fetch.ok
    THEN LET stock_list == HkStockList[fetch.table]
         IN  [items |-> stock_list,
              info |-> insert_or_replace(info, "stock_info", HkInfoRows(stock_list)),
              backup |-> Some(stock_list)]
    ELSE [items |-> <<>>, info |-> info, backup |-> bk]

\* (mutant) the backup file is written only when there is none yet
get_hk_stock_list_first_backup(fetch, info, bk) ==
    IF fetch.ok
    THEN LET stock_list == HkStockList[fetch.table]
         IN  [items |-> stock_list,
              info |-> insert_or_replace(info, "stock_info", HkInfoRows(stock_list)),
              backup |-> IF bk = None THEN Some(stock_list) ELSE bk]
    ELSE [items |-> IF bk # None THEN bk[1] ELSE <<>>, info |-> info, backup |-> bk]

\* bk: BACKUP_LIST_PATH, None when the file does not exist
get_hk_stock_list(fetch, info, bk) ==
    IF fetch.ok
    THEN LET stock_list == HkStockList[fetch.table]
         IN  [items |-> stock_list,
              info |-> insert_or_replace(info, "stock_info", HkInfoRows(stock_list)),
              backup |-> Some(stock_list)]
    ELSE [items |-> IF bk # None THEN bk[1] ELSE <<>>, info |-> info, backup |-> bk]

\* ---- KR: downloader_kr.get_kr_stock_list ----
\* what FinanceDataReader can return for KOSPI and KOSDAQ together
KrTables ==
    { << >>,
      << [Code |-> <<"0", "0", "5", "9", "3", "0">>, Market |-> "KOSPI", Name |-> <<"S", "E">>],
         [Code |-> <<"0", "3", "5", "7", "2", "0">>, Market |-> "KOSDAQ", Name |-> <<"K", "A">>],
         [Code |-> <<"0", "0", "0", "6", "6", "0">>, Market |-> "KOSPI", Name |-> <<"S", "K">>] >> }

KrFetches == {Fetched(t) : t \in KrTables} \cup {FetchFailed}

KrFallbackList ==
    << << <<"0", "0", "5", "9", "3", "0", ".KS">>, <<"SAMSUNG ELECTRONICS">> >>,
       << <<"0", "0", "0", "6", "6", "0", ".KS">>, <<"SK HYNIX">> >> >>

RECURSIVE KrScanRows(_)
KrScanRows(rows) ==
    IF rows = <<>> THEN <<>>
    ELSE LET code == Strip(Head(rows).Code)
             suffix == IF Head(rows).Market = "KOSPI" THEN ".KS" ELSE ".KQ"
             symbol == code \o <<suffix>>
             name == Head(rows).Name
         IN  <<<<symbol, name>>>> \o KrScanRows(Tail(rows))

KrStockList == [t \in KrTables |-> KrScanRows(t)]

get_kr_stock_list(fetch, info) ==
    IF fetch.ok
    THEN LET stock_list == KrStockList[fetch.table]
         IN  [items |-> stock_list,
              info |-> insert_or_replace(info, "stock_info", InfoRows(stock_list))]
    ELSE [items |-> KrFallbackList, info |-> info]

\* ---- US: downloader_us.get_full_stock_list ----
\* an entry "ticker&name" of the listing is written as a number
UsSites == {"nasdaqlisted.txt", "otherlisted.txt"}

\* the common-stock entries nasdaqtrader.com serves per file
UsUpstream(site) == IF site = "nasdaqlisted.txt" THEN 1..2000 ELSE 1501..3500

exclude_keywords ==
    { <<"W", "A", "R", "R", "A", "N", "T">>, <<"R", "I", "G", "H", "T", "S">>, <<"U", "N", "I", "T">>,
      <<"P", "R", "E", "F", "E", "R", "R", "E", "D">>, <<"D", "E", "P", "O", "S", "I", "T", "A", "R", "Y">>,
      <<"A", "D", "R">>, <<"F", "O", "R", "E", "I", "G", "N">>, <<"D", "E", "B", "E", "N", "T", "U", "R", "E">> }

\* downloader_us.classify_security
classify_security_us(name, is_etf) ==
    IF is_etf THEN "Exclude"
    ELSE LET n_upper == StrUpper(name)
         IN  IF \E kw \in exclude_keywords : Contains(n_upper, kw) THEN "Exclude"
             ELSE "Common Stock"

\* str.replace('$', '-')
ReplaceDollar(str) == [i \in 1..Len(str) |-> IF str[i] = "$" THEN "-" ELSE str[i]]

\* the rows of one file that are no test issue and classify as common
\* stock, as "ticker&name"
RECURSIVE UsScanRows(_)
UsScanRows(rows) ==
    IF rows = <<>> THEN <<>>
    ELSE LET row == Head(rows)
             ticker == ReplaceDollar(Strip(row.Symbol))
             name == Strip(row.SecurityName)
         IN  IF row.TestIssue = "N"
                /\ classify_security_us(row.SecurityName, row.ETF = "Y") = "Common Stock"
             THEN <<ticker \o <<"&">> \o name>> \o UsScanRows(Tail(rows))
             ELSE UsScanRows(Tail(rows))

\* all_rows as a set, for the set ok of sites whose request and parse succeed
UsAllRows(ok) == UNION {UsUpstream(site) : site \in ok}

\* today's cache file with at least threshold entries
UsCacheIsFresh(file, now) ==
    /\ file # None
    /\ file[1].date = now
    /\ Cardinality(file[1].data) >= threshold

\* (mutant) the fetched listing is written to the file whatever its size
get_full_stock_list_writes_any(ok, file, now) ==
    LET final_list == UsAllRows(ok)
    IN  IF UsCacheIsFresh(file, now)
        THEN [items |-> file[1].data, file |-> file]
        ELSE [items |-> IF Cardinality(final_list) < threshold /\ file # None
                        THEN file[1].data ELSE final_list,
              file |-> Some([date |-> now, data |-> final_list])]

\* file: CACHE_LIST_PATH, None when the file does not exist
get_full_stock_list(ok, file, now) ==
    LET final_list == UsAllRows(ok)
    IN  IF UsCacheIsFresh(file, now)
        THEN [items |-> file[1].data, file |-> file]
        ELSE IF Cardinality(final_list) >= threshold
        THEN [items |-> final_list, file |-> Some([date |-> now, data |-> final_list])]
        ELSE IF file # None
        THEN [items |-> file[1].data, file |-> file]
        ELSE [items |-> final_list, file |-> file]

(***************************************************************************)
(* The quote provider (yfinance).  The provider serves, for a symbol, the  *)
(* bars of the trading days 1..day; prices are re-adjusted every day, so   *)
(* the values of an old bar change with the day.  Some symbols have no     *)
(* data at all (delisted).                                                 *)
(***************************************************************************)
NoDataSymbols ==
    { <<"6", "4", "8", "8", ".TWO">>, <<"0", "3", "5", "7", "2", "0", ".KQ">> }

\* tk.history(start=start_date): rows indexed by a timezone-aware timestamp
History(symbol, today) ==
    IF symbol \in NoDataSymbols THEN <<>>
    ELSE [d \in 1..today |-> [Date |-> [day |-> d, tz |-> "local"], Close |-> 100 * today + d]]

\* pd.to_datetime(...).dt.tz_localize(None).dt.strftime('%Y-%m-%d')
NormalizeDate(ts) == ts.day

\* lower-case columns, normalised date, the symbol column
df_final(hist, symbol) ==
    [i \in 1..Len(hist) |->
        [date |-> NormalizeDate(hist[i].Date), symbol |-> symbol, close |-> hist[i].Close]]

MAX_WORKERS(m, gh) ==
    CASE m = "tw" -> IF gh THEN 3 ELSE 4
      [] m = "hk" -> IF gh THEN 2 ELSE 6
      [] OTHER    -> IF gh THEN 3 ELSE 4

\* the symbol requested for a listing item, and the item's cache file
ItemSymbol(m, it) == IF m = "hk" THEN to_symbol_yf(it[1]) ELSE it[1]

csv_path(m, it) == IF m = "hk" THEN it[1] \o <<".HK", ".csv">> ELSE it[1] \o <<".csv">>

\* the "symbol" field of download_one's result
ResultSymbol(m, it) == it[1]

(***************************************************************************)
(* State                                                                   *)
(***************************************************************************)
VARIABLES
    market,             \* the downloader module: "tw", "hk", "kr"
    IS_GITHUB_ACTIONS,  \* the execution environment switch
    stock_info,         \* table stock_info
    stock_prices,       \* table stock_prices
    backup,             \* BACKUP_LIST_PATH (HK): None or the saved listing
    cache,              \* CACHE_DIR: csv path |-> [age, rows]
    day,                \* the provider's current trading day
    pc,                 \* run_sync: "idle", "pool", "done", "raised"
    items,              \* the listing of the current run
    task,               \* the futures: index |-> [pc, df, status]
    stats,              \* outcome counters of the coordinating thread
    fail_list,          \* symbols tagged error, in completion order
    result,             \* the dictionary run_sync returned, or None
    vacuums,            \* VACUUMs executed by the current run
    runs,               \* number of run_sync calls so far
    lastUpsert,         \* history: key |-> the row of the latest upsert
    cur,                \* history: facts about the current run
    today,              \* the calendar date
    us_cache,           \* CACHE_LIST_PATH (US): None or [date, data]
    calls,              \* number of listing calls so far
    call,               \* history: facts about the last listing call
    target_market,      \* main: sys.argv[1].lower(), or None
    service,            \* main: a Drive service was built
    mpc,                \* main: the statement main is at
    m_idx,              \* main: index of m in markets_to_run
    execution_results,  \* main: what run_sync returned
    has_changed,        \* main: the local has_changed of the iteration
    all_summaries,      \* main: markets whose summary was appended
    started,            \* history: markets whose iteration began
    processed,          \* history: markets whose iteration completed
    trail,              \* history: per market, what the iteration did
    notifier,           \* main: the module's notifier was initialised (not None)
    resend_api_key,     \* notifier: RESEND_API_KEY is set
    tg_token,           \* notifier: TELEGRAM_BOT_TOKEN is set
    tg_chat_id,         \* notifier: TELEGRAM_CHAT_ID is set
    npc,                \* notifier: the statement send_stock_report_email is at
    email,              \* history: the email of the last call
    telegram,           \* history: the Telegram message of the last call
    success,            \* what send_stock_report_email returned, or None
    reports,            \* number of send_stock_report_email calls so far
    arg,                \* a function on its own: its arguments
    ret                 \* a function on its own: None, or what it returned

syncVars == <<market, IS_GITHUB_ACTIONS, stock_info, stock_prices, backup, cache, day,
              pc, items, task, stats, fail_list, result, vacuums, runs,
              lastUpsert, cur>>

listVars == <<today, us_cache, calls, call>>

mainVars == <<target_market, service, mpc, m_idx, execution_results, has_changed,
              all_summaries, started, processed, trail, notifier>>

notifyVars == <<resend_api_key, tg_token, tg_chat_id, npc, email, telegram, success, reports>>

funVars == <<arg, ret>>

vars == <<syncVars, listVars, mainVars, notifyVars, funVars>>

otherVars == <<listVars, mainVars, notifyVars, funVars>>

ZeroStats == [success |-> 0, cache |-> 0, empty |-> 0, error |-> 0]

\* startRows: stock_prices when the run started; startDay: the provider's
\* day then; ticked: the clock advanced after the run returned; repeat: the
\* run follows a run in succession (no clock advance, provider unchanged)
\* that tagged every item of this run's listing success, cache or empty
NoRun == [startRows |-> EmptyTable, startDay |-> 0, ticked |-> FALSE, repeat |-> FALSE]

\* failed: the sources whose request or parse failed; backupBefore: the
\* backup file when the call started; returned: None when the call raised
NoCall == [done |-> FALSE, failed |-> {}, backupBefore |-> None, returned |-> None,
           raised |-> FALSE, lastGood |-> None]

ListIdle ==
    /\ today = 1
    /\ us_cache = None
    /\ calls = 0
    /\ call = NoCall

StoreInit ==
    /\ IS_GITHUB_ACTIONS \in BOOLEAN
    /\ stock_info = EmptyTable
    /\ stock_prices = EmptyTable
    /\ backup = None
    /\ cache = << >>
    /\ day = 1
    /\ pc = "idle"
    /\ items = <<>>
    /\ task = <<>>
    /\ stats = ZeroStats
    /\ fail_list = <<>>
    /\ result = None
    /\ vacuums = 0
    /\ runs = 0
    /\ lastUpsert = << >>
    /\ cur = NoRun

\* module_map.keys(), in insertion order
module_map == <<"tw", "us", "cn", "hk", "jp", "kr">>

\* the modules of module_map that define run_sync; downloader_us defines
\* main() only
HasRunSync(m) == m # "us"

\* listed: run_sync got a listing with entries; has_changed: main's local
\* has_changed; ops: the compactions and uploads of the iteration, in order;
\* db: the store file as get_db_summary found it
NoTrail == [listed |-> FALSE, has_changed |-> FALSE, ops |-> <<>>, db |-> "unseen"]

MainIdle ==
    /\ target_market = None
    /\ service = FALSE
    /\ mpc = "idle"
    /\ m_idx = 0
    /\ execution_results = None
    /\ has_changed = FALSE
    /\ all_summaries = <<>>
    /\ started = {}
    /\ processed = {}
    /\ trail = [m \in Range(module_map) |-> NoTrail]
    /\ notifier = FALSE

FunIdle ==
    /\ arg = None
    /\ ret = None

NotifyIdle ==
    /\ resend_api_key = FALSE
    /\ tg_token = FALSE
    /\ tg_chat_id = FALSE
    /\ npc = "idle"
    /\ email = "none"
    /\ telegram = "none"
    /\ success = None
    /\ reports = 0

SyncInit ==
    /\ market \in {"tw", "hk", "kr"}
    /\ StoreInit
    /\ ListIdle
    /\ MainIdle
    /\ NotifyIdle
    /\ FunIdle

(***************************************************************************)
(* run_sync, first part: init_db, the listing source, the empty-listing    *)
(* return, the submission of one task per item                             *)
(***************************************************************************)
\* the listing sources as run_sync calls them: the results a fetch can have
Listings(m, info, bk) ==
    CASE m = "tw" ->
            { [items |-> l.items, info |-> l.info, backup |-> bk] :
                l \in { get_tw_stock_list(ok, info) : ok \in SUBSET TwSources } }
      [] m = "hk" ->
            { get_hk_stock_list(f, info, bk) : f \in HkFetches }
      [] OTHER ->
            { [items |-> l.items, info |-> l.info, backup |-> bk] :
                l \in { get_kr_stock_list(f, info) : f \in KrFetches } }

\* (mutant) a cache hit counts as a change
HasChangedOrCached(st) == st.success + st.cache > 0

\* has_changed = stats['success'] > 0
HasChanged(st) == st.success > 0

\* (mutant) the empty listing is not looked at
NeverAborts(its) == FALSE

\* if not items: return
AbortsRun(its) == its = <<>>

\* (mutant) the environment switch is left out
NeedsVacuumOnlyChanged(changed, gh) == changed

\* if has_changed or IS_GITHUB_ACTIONS
NeedsVacuum(changed, gh) == changed \/ gh

\* the items the run tagged success, cache or empty
Settled ==
    {items[i] : i \in {j \in DOMAIN task : task[j].status \in {"success", "cache", "empty"}}}

RunSyncStart(l) ==
    /\ stock_info' = l.info
    /\ backup' = (IF market = "hk" THEN l.backup ELSE backup)
    /\ items' = l.items
    /\ runs' = runs + 1
    /\ cur' = [startRows |-> stock_prices, startDay |-> day, ticked |-> FALSE,
               repeat |-> /\ pc = "done"
                          /\ ~cur.ticked
                          /\ day = cur.startDay
                          /\ Range(l.items) \subseteq Settled]
    /\ stats' = ZeroStats
    /\ fail_list' = <<>>
    /\ vacuums' = 0
    /\ UNCHANGED <<market, IS_GITHUB_ACTIONS, stock_prices, cache, day, lastUpsert>>

\* items is empty: return {"fail_list": [], "success": 0, "has_changed": False}
RunSyncEmpty ==
    /\ pc \in {"idle", "done", "raised"}
    /\ runs < MaxRuns
    /\ \E l \in Listings(market, stock_info, backup) :
        /\ AbortsRun(l.items)
        /\ RunSyncStart(l)
    /\ task' = <<>>
    /\ result' = Some([success |-> 0, fail_list |-> <<>>, has_changed |-> FALSE])
    /\ pc' = "done"
    /\ UNCHANGED otherVars

\* import FinanceDataReader raises in get_kr_stock_list: run_sync raises
RunSyncListingRaises ==
    /\ market = "kr"
    /\ pc \in {"idle", "done", "raised"}
    /\ runs < MaxRuns
    /\ runs' = runs + 1
    /\ cur' = [startRows |-> stock_prices, startDay |-> day, ticked |-> FALSE,
               repeat |-> FALSE]
    /\ items' = <<>>
    /\ task' = <<>>
    /\ stats' = ZeroStats
    /\ fail_list' = <<>>
    /\ vacuums' = 0
    /\ result' = None
    /\ pc' = "raised"
    /\ UNCHANGED <<market, IS_GITHUB_ACTIONS, stock_info, stock_prices, backup, cache, day,
                   lastUpsert>>
    /\ UNCHANGED otherVars

RunSyncSubmit ==
    /\ pc \in {"idle", "done", "raised"}
    /\ runs < MaxRuns
    /\ \E l \in Listings(market, stock_info, backup) :
        /\ ~AbortsRun(l.items)
        /\ RunSyncStart(l)
        /\ task' = [i \in 1..Len(l.items) |-> [pc |-> "submitted", df |-> <<>>, status |-> "none",
                                         requested |-> FALSE]]
    /\ result' = None
    /\ pc' = "pool"
    /\ UNCHANGED otherVars

(***************************************************************************)
(* download_one, run by the pool's workers                                 *)
(***************************************************************************)
Running == {t \in DOMAIN task : task[t].pc \in {"fetched", "cached"}}

\* The coordinating thread takes a completed future before the workers'
\* next step is looked at: its step touches only stats, fail_list and the
\* future, which no worker reads, so every other order gives the same states.
NothingToCollect == \A u \in DOMAIN task : task[u].pc # "done"

\* (mutant) no task is taken once a task has ended in error
NextSubmittedUnlessFailed(t) ==
    /\ pc = "pool"
    /\ NothingToCollect
    /\ t \in DOMAIN task
    /\ task[t].pc = "submitted"
    /\ \A u \in DOMAIN task : task[u].status # "error"
    /\ LET free == MAX_WORKERS(market, IS_GITHUB_ACTIONS) - Cardinality(Running)
           ahead == Cardinality({u \in DOMAIN task : u < t /\ task[u].pc = "submitted"})
       IN  IF market = "tw" THEN free > 0 ELSE ahead < free

\* The pool's work queue is first in, first out: the free workers take the
\* first submitted tasks and race.  The TW listing is list(set(...)), whose
\* order is arbitrary, so any submitted task may be the next one there.
NextSubmitted(t) ==
    /\ pc = "pool"
    /\ NothingToCollect
    /\ t \in DOMAIN task
    /\ task[t].pc = "submitted"
    /\ LET free == MAX_WORKERS(market, IS_GITHUB_ACTIONS) - Cardinality(Running)
           ahead == Cardinality({u \in DOMAIN task : u < t /\ task[u].pc = "submitted"})
       IN  IF market = "tw" THEN free > 0 ELSE ahead < free

\* (mutant) the age test is inverted
IsCacheHitInverted(gh, files, path) ==
    /\ ~gh
    /\ path \in DOMAIN files
    /\ files[path].age > DATA_EXPIRY_SECONDS

\* (mutant) a file is fresh up to and including its expiry
IsCacheHitAtExpiry(gh, files, path) ==
    /\ ~gh
    /\ path \in DOMAIN files
    /\ files[path].age <= DATA_EXPIRY_SECONDS

\* not IS_GITHUB_ACTIONS and os.path.exists(csv_path) and file_age < DATA_EXPIRY_SECONDS
IsCacheHit(gh, files, path) ==
    /\ ~gh
    /\ path \in DOMAIN files
    /\ files[path].age < DATA_EXPIRY_SECONDS

\* return {"symbol": symbol, "status": status}
Done(t, status) == [task EXCEPT ![t].pc = "done", ![t].df = <<>>, ![t].status = status]

\* tk.history(...) was called for the task
Requested(tasks, t) == [tasks EXCEPT ![t].requested = TRUE]

CacheHit(t) ==
    /\ NextSubmitted(t)
    /\ IsCacheHit(IS_GITHUB_ACTIONS, cache, csv_path(market, items[t]))
    /\ task' = Done(t, "cache")
    /\ UNCHANGED <<market, IS_GITHUB_ACTIONS, stock_info, stock_prices, backup, cache, day,
                   pc, items, stats, fail_list, result, vacuums, runs, lastUpsert, cur>>
    /\ UNCHANGED otherVars

\* the request raises (network error, timeout)
ProviderRaises(t) ==
    /\ NextSubmitted(t)
    /\ ~IsCacheHit(IS_GITHUB_ACTIONS, cache, csv_path(market, items[t]))
    /\ task' = Requested(Done(t, "error"), t)
    /\ UNCHANGED <<market, IS_GITHUB_ACTIONS, stock_info, stock_prices, backup, cache, day,
                   pc, items, stats, fail_list, result, vacuums, runs, lastUpsert, cur>>
    /\ UNCHANGED otherVars

\* hist is None or hist.empty
ProviderEmpty(t) ==
    /\ NextSubmitted(t)
    /\ ~IsCacheHit(IS_GITHUB_ACTIONS, cache, csv_path(market, items[t]))
    /\ History(ItemSymbol(market, items[t]), day) = <<>>
    /\ task' = Requested(Done(t, "empty"), t)
    /\ UNCHANGED <<market, IS_GITHUB_ACTIONS, stock_info, stock_prices, backup, cache, day,
                   pc, items, stats, fail_list, result, vacuums, runs, lastUpsert, cur>>
    /\ UNCHANGED otherVars

ProviderData(t) ==
    /\ NextSubmitted(t)
    /\ ~IsCacheHit(IS_GITHUB_ACTIONS, cache, csv_path(market, items[t]))
    /\ LET symbol == ItemSymbol(market, items[t])
           hist == History(symbol, day)
       IN  /\ hist # <<>>
           /\ task' = Requested([task EXCEPT ![t].pc = "fetched",
                                              ![t].df = df_final(hist, symbol)], t)
    /\ UNCHANGED <<market, IS_GITHUB_ACTIONS, stock_info, stock_prices, backup, cache, day,
                   pc, items, stats, fail_list, result, vacuums, runs, lastUpsert, cur>>
    /\ UNCHANGED otherVars

\* if not IS_GITHUB_ACTIONS: df_final.to_csv(csv_path, index=False)
WriteCsv(t) ==
    /\ pc = "pool"
    /\ NothingToCollect
    /\ t \in DOMAIN task
    /\ task[t].pc = "fetched"
    /\ ~IS_GITHUB_ACTIONS
    /\ LET path == csv_path(market, items[t])
       IN  cache' = [f \in DOMAIN cache \cup {path} |->
                        IF f = path THEN [age |-> 0, rows |-> task[t].df] ELSE cache[f]]
    /\ task' = [task EXCEPT ![t].pc = "cached"]
    /\ UNCHANGED <<market, IS_GITHUB_ACTIONS, stock_info, stock_prices, backup, day,
                   pc, items, stats, fail_list, result, vacuums, runs, lastUpsert, cur>>
    /\ UNCHANGED otherVars

ReadyForSql(t) ==
    /\ pc = "pool"
    /\ NothingToCollect
    /\ t \in DOMAIN task
    /\ \/ task[t].pc = "cached"
       \/ task[t].pc = "fetched" /\ IS_GITHUB_ACTIONS

\* df_final.to_sql(..., method=insert_or_replace): one committed transaction
Upsert(t) ==
    /\ ReadyForSql(t)
    /\ stock_prices' = insert_or_replace(stock_prices, "stock_prices", task[t].df)
    /\ lastUpsert' = [k \in DOMAIN lastUpsert \cup {PrimaryKey("stock_prices", r) : r \in Range(task[t].df)} |->
                        IF \E r \in Range(task[t].df) : PrimaryKey("stock_prices", r) = k
                        THEN CHOOSE r \in Range(task[t].df) : PrimaryKey("stock_prices", r) = k
                        ELSE lastUpsert[k]]
    /\ task' = Done(t, "success")
    /\ UNCHANGED <<market, IS_GITHUB_ACTIONS, stock_info, backup, cache, day,
                   pc, items, stats, fail_list, result, vacuums, runs, cur>>
    /\ UNCHANGED otherVars

\* sqlite raises (database is locked for more than the timeout): nothing is committed
UpsertFails(t) ==
    /\ ReadyForSql(t)
    /\ task' = Done(t, "error")
    /\ UNCHANGED <<market, IS_GITHUB_ACTIONS, stock_info, stock_prices, backup, cache, day,
                   pc, items, stats, fail_list, result, vacuums, runs, lastUpsert, cur>>
    /\ UNCHANGED otherVars

(***************************************************************************)
(* run_sync, second part: the coordinating thread                          *)
(***************************************************************************)
\* (mutant) every outcome but success is recorded as a failure
FailListAfterUnlessSuccess(fl, s, symbol) ==
    IF s # "success" THEN Append(fl, symbol) ELSE fl

\* (mutant) an empty history is recorded as a failure too
FailListAfterErrorOrEmpty(fl, s, symbol) ==
    IF s \in {"error", "empty"} THEN Append(fl, symbol) ELSE fl

\* if s == "error": fail_list.append(res.get("symbol"))
FailListAfter(fl, s, symbol) == IF s = "error" THEN Append(fl, symbol) ELSE fl

\* (mutant) the increment is applied to the counters as they were when the
\* pool started: an update is lost
StatsAfterStale(st, s) == [ZeroStats EXCEPT ![s] = @ + 1]

\* stats[s] += 1
StatsAfter(st, s) == [st EXCEPT ![s] = @ + 1]

\* for f in as_completed(futures): stats[s] += 1; fail_list.append(symbol)
Collect(t) ==
    /\ pc = "pool"
    /\ t \in DOMAIN task
    /\ task[t].pc = "done"
    /\ LET s == task[t].status
       IN  /\ stats' = StatsAfter(stats, s)
           /\ fail_list' = FailListAfter(fail_list, s, ResultSymbol(market, items[t]))
    /\ task' = [task EXCEPT ![t].pc = "collected"]
    /\ UNCHANGED <<market, IS_GITHUB_ACTIONS, stock_info, stock_prices, backup, cache, day,
                   pc, items, result, vacuums, runs, lastUpsert, cur>>
    /\ UNCHANGED otherVars

AllCollected ==
    /\ pc = "pool"
    /\ \A t \in DOMAIN task : task[t].pc = "collected"

RunSyncResult(st, fl) ==
    [success |-> st.success + st.cache, fail_list |-> fl, has_changed |-> HasChanged(st)]

\* has_changed, the conditional VACUUM, the returned dictionary
Finish ==
    /\ AllCollected
    /\ vacuums' = IF NeedsVacuum(HasChanged(stats), IS_GITHUB_ACTIONS) THEN vacuums + 1 ELSE vacuums
    /\ result' = Some(RunSyncResult(stats, fail_list))
    /\ pc' = "done"
    /\ UNCHANGED <<market, IS_GITHUB_ACTIONS, stock_info, stock_prices, backup, cache, day,
                   items, task, stats, fail_list, runs, lastUpsert, cur>>
    /\ UNCHANGED otherVars

\* conn.execute("VACUUM") raises: run_sync raises
FinishVacuumFails ==
    /\ AllCollected
    /\ NeedsVacuum(HasChanged(stats), IS_GITHUB_ACTIONS)
    /\ pc' = "raised"
    /\ UNCHANGED <<market, IS_GITHUB_ACTIONS, stock_info, stock_prices, backup, cache, day,
                   items, task, stats, fail_list, result, vacuums, runs, lastUpsert, cur>>
    /\ UNCHANGED otherVars

(***************************************************************************)
(* The environment: time passes, the provider publishes a new day          *)
(***************************************************************************)
AgeAfter(age) ==
    IF age < DATA_EXPIRY_SECONDS - 1 THEN DATA_EXPIRY_SECONDS - 1 ELSE DATA_EXPIRY_SECONDS

\* between two runs the clock advances: to one second before the expiry of
\* the youngest files, then to their expiry
ClockTick ==
    /\ pc # "pool"
    /\ \E f \in DOMAIN cache : cache[f].age < DATA_EXPIRY_SECONDS
    /\ cache' = [f \in DOMAIN cache |-> [cache[f] EXCEPT !.age = AgeAfter(@)]]
    /\ cur' = [cur EXCEPT !.ticked = TRUE]
    /\ UNCHANGED <<market, IS_GITHUB_ACTIONS, stock_info, stock_prices, backup, day,
                   pc, items, task, stats, fail_list, result, vacuums, runs, lastUpsert>>
    /\ UNCHANGED otherVars

\* the provider publishes a new trading day, at any time
NewDay ==
    /\ day < MaxDay
    /\ day' = day + 1
    /\ UNCHANGED <<market, IS_GITHUB_ACTIONS, stock_info, stock_prices, backup, cache,
                   pc, items, task, stats, fail_list, result, vacuums, runs, lastUpsert, cur>>
    /\ UNCHANGED otherVars

SyncNext ==
    \/ RunSyncEmpty
    \/ RunSyncSubmit
    \/ RunSyncListingRaises
    \/ \E t \in DOMAIN task : CacheHit(t)
    \/ \E t \in DOMAIN task : ProviderRaises(t)
    \/ \E t \in DOMAIN task : ProviderEmpty(t)
    \/ \E t \in DOMAIN task : ProviderData(t)
    \/ \E t \in DOMAIN task : WriteCsv(t)
    \/ \E t \in DOMAIN task : Upsert(t)
    \/ \E t \in DOMAIN task : UpsertFails(t)
    \/ \E t \in DOMAIN task : Collect(t)
    \/ Finish
    \/ FinishVacuumFails
    \/ ClockTick
    \/ NewDay

Spec == SyncInit /\ [][SyncNext]_vars

\* a step of a pool worker: every call in download_one returns or raises
\* (the request has a timeout, sqlite has a busy timeout)
WorkerStep ==
    \E t \in DOMAIN task :
        \/ CacheHit(t)
        \/ ProviderRaises(t)
        \/ ProviderEmpty(t)
        \/ ProviderData(t)
        \/ WriteCsv(t)
        \/ Upsert(t)
        \/ UpsertFails(t)

\* a step of the thread that runs run_sync
CoordinatorStep == (\E t \in DOMAIN task : Collect(t)) \/ Finish \/ FinishVacuumFails

\* the threads of a run are scheduled fairly; when the next run starts, the
\* clock and the provider's day are the environment's
SpecFair == Spec /\ WF_vars(WorkerStep) /\ WF_vars(CoordinatorStep)

(***************************************************************************)
(* The listing sources on their own (specification SpecListing): the       *)
(* listing function of a market is called again and again, each time with  *)
(* some of its requests failing.                                           *)
(***************************************************************************)
ListingInit ==
    /\ market \in {"tw", "hk", "kr", "us"}
    /\ StoreInit
    /\ ListIdle
    /\ MainIdle
    /\ NotifyIdle
    /\ FunIdle

\* what a listing call leaves alone
listFrame == <<market, IS_GITHUB_ACTIONS, stock_prices, cache, day, pc, items, task, stats,
               fail_list, result, vacuums, runs, lastUpsert, cur>>

\* lastGood: what the most recent call without a failed request returned
Called(failed, bk, returned) ==
    [done |-> TRUE, failed |-> failed, backupBefore |-> bk, returned |-> Some(returned),
     raised |-> FALSE, lastGood |-> IF failed = {} THEN Some(returned) ELSE call.lastGood]

GetTwStockList ==
    /\ market = "tw"
    /\ calls < MaxCalls
    /\ \E ok \in SUBSET TwSources :
          LET l == get_tw_stock_list(ok, stock_info)
          IN  /\ stock_info' = l.info
              /\ call' = Called(TwSources \ ok, None, l.items)
    /\ calls' = calls + 1
    /\ UNCHANGED <<listFrame, backup, today, us_cache, mainVars, notifyVars, funVars>>

GetHkStockList ==
    /\ market = "hk"
    /\ calls < MaxCalls
    /\ \E f \in HkFetches :
          LET l == get_hk_stock_list(f, stock_info, backup)
          IN  /\ stock_info' = l.info
              /\ backup' = l.backup
              /\ call' = Called(IF f.ok THEN {} ELSE {"secstkorder.xls"}, backup, l.items)
    /\ calls' = calls + 1
    /\ UNCHANGED <<listFrame, today, us_cache, mainVars, notifyVars, funVars>>

GetKrStockList ==
    /\ market = "kr"
    /\ calls < MaxCalls
    /\ \E f \in KrFetches :
          LET l == get_kr_stock_list(f, stock_info)
          IN  /\ stock_info' = l.info
              /\ call' = Called(IF f.ok THEN {} ELSE {"StockListing"}, None, l.items)
    /\ calls' = calls + 1
    /\ UNCHANGED <<listFrame, backup, today, us_cache, mainVars, notifyVars, funVars>>

\* ensure_pkg could not install the package: import FinanceDataReader, which
\* is outside the try block, raises
GetKrStockListImportFails ==
    /\ market = "kr"
    /\ calls < MaxCalls
    /\ call' = [done |-> TRUE, failed |-> {}, backupBefore |-> None, returned |-> None,
                raised |-> TRUE, lastGood |-> call.lastGood]
    /\ calls' = calls + 1
    /\ UNCHANGED <<listFrame, stock_info, backup, today, us_cache, mainVars, notifyVars, funVars>>

GetFullStockList ==
    /\ market = "us"
    /\ calls < MaxCalls
    /\ \E ok \in SUBSET UsSites :
          LET l == get_full_stock_list(ok, us_cache, today)
          IN  /\ us_cache' = l.file
              /\ call' = Called(IF UsCacheIsFresh(us_cache, today) THEN {} ELSE UsSites \ ok,
                                us_cache, l.items)
    /\ calls' = calls + 1
    /\ UNCHANGED <<listFrame, stock_info, backup, today, mainVars, notifyVars, funVars>>

\* the calendar date changes
Midnight ==
    /\ today < MaxDay
    /\ today' = today + 1
    /\ UNCHANGED <<syncVars, us_cache, calls, call, mainVars, notifyVars, funVars>>

ListingNext ==
    \/ GetTwStockList
    \/ GetHkStockList
    \/ GetKrStockList
    \/ GetKrStockListImportFails
    \/ GetFullStockList
    \/ Midnight

SpecListing == ListingInit /\ [][ListingNext]_vars

(***************************************************************************)
(* The orchestrator (specification SpecMain): main's loop over             *)
(* markets_to_run.  run_sync is one step here; what it returns and whether *)
(* it compacts is what specification Spec shows it can return and do.      *)
(***************************************************************************)
\* sys.argv[1]: absent, a key of module_map, or any other word
Targets == {None, Some("tw"), Some("us"), Some("hk"), Some("kr"), Some("all")}

markets_to_run ==
    IF target_market # None /\ target_market[1] \in Range(module_map)
    THEN <<target_market[1]>>
    ELSE module_map

MainInit ==
    /\ StoreInit
    /\ ListIdle
    /\ NotifyIdle
    /\ FunIdle
    /\ target_market \in Targets
    /\ service \in BOOLEAN
    /\ market = markets_to_run[1]
    /\ mpc = "for"
    /\ m_idx = 1
    /\ execution_results = None
    /\ has_changed = FALSE
    /\ all_summaries = <<>>
    /\ started = {}
    /\ processed = {}
    /\ trail = [m \in Range(module_map) |-> NoTrail]
    /\ notifier \in BOOLEAN

\* what main leaves alone
mainFrame == <<IS_GITHUB_ACTIONS, stock_info, stock_prices, backup, cache, day, pc, items,
               task, stats, fail_list, result, vacuums, runs, lastUpsert, cur, listVars,
               target_market, service, notifier, notifyVars, funVars>>

\* for m in markets_to_run
ForBody ==
    /\ mpc = "for"
    /\ m_idx <= Len(markets_to_run)
    /\ market' = markets_to_run[m_idx]
    /\ started' = started \cup {markets_to_run[m_idx]}
    /\ mpc' = "download_db"
    /\ UNCHANGED <<mainFrame, m_idx, execution_results, has_changed, all_summaries,
                   processed, trail>>

ForDone ==
    /\ mpc = "for"
    /\ m_idx > Len(markets_to_run)
    /\ mpc' = "report"
    /\ UNCHANGED <<mainFrame, market, m_idx, execution_results, has_changed, all_summaries,
                   started, processed, trail>>

\* if service and not os.path.exists(db_file): download_db_from_drive, which
\* catches what its requests raise
DownloadDb ==
    /\ mpc = "download_db"
    /\ mpc' = "run_sync"
    /\ UNCHANGED <<mainFrame, market, m_idx, execution_results, has_changed, all_summaries,
                   started, processed, trail>>

\* the outcome counters of a run over a listing with entries
MainStats ==
    {st \in [success : 0..1, cache : 0..1, empty : 0..1, error : 0..1] : st # ZeroStats}

MainFailList(st) == IF st.error > 0 THEN << <<"6", "4", "8", "8", ".TWO">> >> ELSE <<>>

\* target_module.run_sync(mode='hot') returns its dictionary
RunSyncReturns ==
    /\ mpc = "run_sync"
    /\ HasRunSync(market)
    /\ \E st \in MainStats :
          /\ execution_results' = Some(RunSyncResult(st, MainFailList(st)))
          /\ trail' = [trail EXCEPT ![market] =
                          [listed |-> TRUE, has_changed |-> FALSE, db |-> "unseen",
                           ops |-> IF NeedsVacuum(HasChanged(st), IS_GITHUB_ACTIONS)
                                   THEN <<"run_sync.VACUUM">> ELSE <<>>]]
    /\ mpc' = "summary"
    /\ UNCHANGED <<mainFrame, market, m_idx, has_changed, all_summaries, started, processed>>

\* run_sync with an empty listing
RunSyncReturnsEmpty ==
    /\ mpc = "run_sync"
    /\ HasRunSync(market)
    /\ execution_results' = Some([success |-> 0, fail_list |-> <<>>, has_changed |-> FALSE])
    /\ trail' = [trail EXCEPT ![market] = NoTrail]
    /\ mpc' = "summary"
    /\ UNCHANGED <<mainFrame, market, m_idx, has_changed, all_summaries, started, processed>>

\* run_sync raises (its VACUUM, its import): nothing in the loop catches it
RunSyncRaises ==
    /\ mpc = "run_sync"
    /\ HasRunSync(market)
    /\ mpc' = "raised"
    /\ UNCHANGED <<mainFrame, market, m_idx, execution_results, has_changed, all_summaries,
                   started, processed, trail>>

\* the module has no attribute run_sync: AttributeError
RunSyncMissing ==
    /\ mpc = "run_sync"
    /\ ~HasRunSync(market)
    /\ mpc' = "raised"
    /\ UNCHANGED <<mainFrame, market, m_idx, execution_results, has_changed, all_summaries,
                   started, processed, trail>>

\* the store file when get_db_summary looks at it
DbFiles == {"missing", "unreadable", "ok"}

\* get_db_summary: None when the file does not exist or a query raises, the
\* summary of the market otherwise
get_db_summary(db) == IF db = "ok" THEN Some("summary") ELSE None

\* has_changed = execution_results.get('has_changed', False);
\* summary = get_db_summary(...); if summary: all_summaries.append(summary)
Summary ==
    /\ mpc = "summary"
    /\ has_changed' = (IF execution_results # None
                       THEN execution_results[1].has_changed ELSE FALSE)
    /\ \E db \in DbFiles :
          /\ trail' = [trail EXCEPT ![market].has_changed = has_changed',
                                    ![market].db = db]
          /\ all_summaries' = IF get_db_summary(db) # None
                              THEN Append(all_summaries, market) ELSE all_summaries
    /\ mpc' = "sync_cloud"
    /\ UNCHANGED <<mainFrame, market, m_idx, execution_results, started, processed>>

\* (mutant) the store is uploaded whenever a service exists
UploadsWhenService(svc, changed) == svc

\* if service: if has_changed
UploadsToCloud(svc, changed) == svc /\ changed

EndOfIteration ==
    /\ processed' = processed \cup {market}
    /\ m_idx' = m_idx + 1
    /\ mpc' = "for"

\* def upload_db_to_drive(service, file_path, retries=3)
retries == 3

\* time.sleep(5)
pause_seconds == 5

\* what upload_db_to_drive leaves alone
uploadFrame == <<IS_GITHUB_ACTIONS, stock_info, stock_prices, backup, cache, day, pc, items,
                 task, stats, fail_list, result, vacuums, runs, lastUpsert, cur, listVars,
                 target_market, service, notifier, notifyVars, arg>>

\* the call of upload_db_to_drive: the outcome of every attempt so far, the
\* seconds slept, the value returned
NoAttempts == [outcomes |-> <<>>, slept |-> 0, value |-> None]

\* (mutant) one attempt more than retries
MoreAttemptsInclusive(attempt, n) == attempt <= n

\* for attempt in range(retries)
MoreAttempts(attempt, n) == attempt < n

\* VACUUM, then the call of upload_db_to_drive: media = MediaFileUpload(...)
\* opens the store file that VACUUM has just written
CloudVacuumUpload ==
    /\ mpc = "sync_cloud"
    /\ UploadsToCloud(service, has_changed)
    /\ trail' = [trail EXCEPT ![market].ops = @ \o <<"main.VACUUM", "main.upload">>]
    /\ ret' = Some(NoAttempts)
    /\ mpc' = "upload"
    /\ UNCHANGED <<uploadFrame, market, m_idx, execution_results, has_changed, all_summaries,
                   started, processed>>

\* files().list, then update (the file is on the drive) or create: return
\* True, which main does not read
UploadAttemptSucceeds ==
    /\ mpc = "upload"
    /\ MoreAttempts(Len(ret[1].outcomes), retries)
    /\ \E done \in {"updated", "created"} :
          ret' = Some([ret[1] EXCEPT !.outcomes = Append(@, done), !.value = Some(TRUE)])
    /\ EndOfIteration
    /\ UNCHANGED <<uploadFrame, market, execution_results, has_changed, all_summaries,
                   started, trail>>

\* except Exception: print, time.sleep(5), next attempt
UploadAttemptFails ==
    /\ mpc = "upload"
    /\ MoreAttempts(Len(ret[1].outcomes), retries)
    /\ ret' = Some([ret[1] EXCEPT !.outcomes = Append(@, "failed"),
                                  !.slept = @ + pause_seconds])
    /\ UNCHANGED <<uploadFrame, market, mpc, m_idx, execution_results, has_changed,
                   all_summaries, started, processed, trail>>

\* the loop is exhausted: return False
UploadGivesUp ==
    /\ mpc = "upload"
    /\ ~MoreAttempts(Len(ret[1].outcomes), retries)
    /\ ret' = Some([ret[1] EXCEPT !.value = Some(FALSE)])
    /\ EndOfIteration
    /\ UNCHANGED <<uploadFrame, market, execution_results, has_changed, all_summaries,
                   started, trail>>

\* conn.execute("VACUUM") raises: nothing in the loop catches it
CloudVacuumRaises ==
    /\ mpc = "sync_cloud"
    /\ UploadsToCloud(service, has_changed)
    /\ mpc' = "raised"
    /\ UNCHANGED <<mainFrame, market, m_idx, execution_results, has_changed, all_summaries,
                   started, processed, trail>>

\* no service, or the else branch: the upload is skipped
CloudSkip ==
    /\ mpc = "sync_cloud"
    /\ ~UploadsToCloud(service, has_changed)
    /\ EndOfIteration
    /\ UNCHANGED <<mainFrame, market, execution_results, has_changed, all_summaries, started,
                   trail>>

\* what the report stage leaves alone
reportFrame == <<syncVars, listVars, funVars, target_market, service, notifier, m_idx,
                 execution_results, has_changed, all_summaries, started, processed, trail,
                 resend_api_key, tg_token, tg_chat_id, npc, email, telegram>>

\* (mutant) the report is sent whenever there is a notifier
DispatchesWhenNotifier(nt, summaries) == nt

\* if notifier is not None: if len(all_summaries) > 0
Dispatches(nt, summaries) == nt /\ Len(summaries) > 0

\* success = notifier.send_stock_report_email(all_summaries), one step
\* here: what it does and returns is what specification SpecNotify shows
ReportDispatch ==
    /\ mpc = "report"
    /\ Dispatches(notifier, all_summaries)
    /\ reports' = reports + 1
    /\ \E sent \in BOOLEAN : success' = Some(sent)
    /\ mpc' = "exit"
    /\ UNCHANGED reportFrame

\* the list of summaries is empty: the dispatch is skipped
ReportNoSummaries ==
    /\ mpc = "report"
    /\ notifier
    /\ ~Dispatches(notifier, all_summaries)
    /\ mpc' = "exit"
    /\ UNCHANGED <<reportFrame, success, reports>>

\* notifier is None: the report stage is skipped
ReportNoNotifier ==
    /\ mpc = "report"
    /\ ~notifier
    /\ mpc' = "exit"
    /\ UNCHANGED <<reportFrame, success, reports>>

MainNext ==
    \/ ForBody
    \/ ForDone
    \/ DownloadDb
    \/ RunSyncReturns
    \/ RunSyncReturnsEmpty
    \/ RunSyncRaises
    \/ RunSyncMissing
    \/ Summary
    \/ CloudVacuumUpload
    \/ UploadAttemptSucceeds
    \/ UploadAttemptFails
    \/ UploadGivesUp
    \/ CloudVacuumRaises
    \/ CloudSkip
    \/ ReportDispatch
    \/ ReportNoSummaries
    \/ ReportNoNotifier

SpecMain == MainInit /\ [][MainNext]_vars

(***************************************************************************)
(* The notifier (specification SpecNotify): send_stock_report_email is     *)
(* called again and again; the email service and the Telegram request each *)
(* succeed or raise.                                                       *)
(***************************************************************************)
NotifyInit ==
    /\ market = "tw"
    /\ StoreInit
    /\ ListIdle
    /\ MainIdle
    /\ FunIdle
    /\ resend_api_key \in BOOLEAN
    /\ tg_token \in BOOLEAN
    /\ tg_chat_id \in BOOLEAN
    /\ npc = "idle"
    /\ email = "none"
    /\ telegram = "none"
    /\ success = None
    /\ reports = 0

\* what the notifier leaves alone
notifyFrame == <<syncVars, listVars, mainVars, funVars, resend_api_key, tg_token, tg_chat_id>>

\* if not self.resend_api_key: return False
SendReportNoApiKey ==
    /\ npc = "idle"
    /\ reports < MaxReports
    /\ ~resend_api_key
    /\ reports' = reports + 1
    /\ email' = "none"
    /\ telegram' = "none"
    /\ success' = Some(FALSE)
    /\ npc' = "idle"
    /\ UNCHANGED notifyFrame

\* the messages are built, the try block is entered
SendReportBegins ==
    /\ npc = "idle"
    /\ reports < MaxReports
    /\ resend_api_key
    /\ reports' = reports + 1
    /\ email' = "none"
    /\ telegram' = "none"
    /\ success' = None
    /\ npc' = "email"
    /\ UNCHANGED notifyFrame

\* resend.Emails.send returns
EmailSent ==
    /\ npc = "email"
    /\ email' = "sent"
    /\ npc' = "telegram"
    /\ UNCHANGED <<notifyFrame, telegram, success, reports>>

\* resend.Emails.send raises: except Exception, return False
EmailRaises ==
    /\ npc = "email"
    /\ email' = "failed"
    /\ success' = Some(FALSE)
    /\ npc' = "idle"
    /\ UNCHANGED <<notifyFrame, telegram, reports>>

\* (mutant) the value of send_telegram is returned
ReturnTelegramResult(sent) == sent

\* self.send_telegram(final_tg_msg); return True
ReturnAfterTelegram(sent) == TRUE

\* send_telegram: if not self.tg_token or not self.tg_chat_id: return False
TelegramNotConfigured ==
    /\ npc = "telegram"
    /\ ~tg_token \/ ~tg_chat_id
    /\ telegram' = "skipped"
    /\ success' = Some(ReturnAfterTelegram(FALSE))
    /\ npc' = "idle"
    /\ UNCHANGED <<notifyFrame, email, reports>>

\* send_telegram: requests.post returns, whatever the response
TelegramPosted ==
    /\ npc = "telegram"
    /\ tg_token /\ tg_chat_id
    /\ telegram' = "sent"
    /\ success' = Some(ReturnAfterTelegram(TRUE))
    /\ npc' = "idle"
    /\ UNCHANGED <<notifyFrame, email, reports>>

\* send_telegram: requests.post raises, the bare except returns False
TelegramRaises ==
    /\ npc = "telegram"
    /\ tg_token /\ tg_chat_id
    /\ telegram' = "failed"
    /\ success' = Some(ReturnAfterTelegram(FALSE))
    /\ npc' = "idle"
    /\ UNCHANGED <<notifyFrame, email, reports>>

NotifyNext ==
    \/ SendReportNoApiKey
    \/ SendReportBegins
    \/ EmailSent
    \/ EmailRaises
    \/ TelegramNotConfigured
    \/ TelegramPosted
    \/ TelegramRaises

SpecNotify == NotifyInit /\ [][NotifyNext]_vars

(***************************************************************************)
(* The classification of one listed row (specification SpecClassify): the  *)
(* row scan of a market's listing source is applied to a table of one row. *)
(***************************************************************************)
\* names as the sites serve them, in mixed case
RawNames ==
    { <<"A", "b">>,
      <<"W", "a", "r", "r", "a", "n", "t">>,
      <<"E", "t", "f">>,
      <<"R", "e", "i", "t">>,
      <<"P", "r", "e", "f", "e", "r", "r", "e", "d">>,
      <<"R", "i", "g", "h", "t", "s">>,
      <<"T", "r", "u", "s", "t">>,
      <<"B", "o", "n", "d">>,
      <<"F", "u", "n", "d">>,
      <<"U", "n", "i", "t">>,
      <<"A", "d", "r">>,
      <<"C", "B", "B", "C">>,
      <<"NIUXIONG">> }

RawCodes == { <<"2", "3", "3", "0">>, <<"0", "0", "7", "0", "0">>, <<"-">> }

\* etf and test are columns of the US files only
RawRows == [code : RawCodes, name : RawNames, etf : {"Y", "N"}, test : {"Y", "N"}]

\* the listing a market's scan builds from the one row r
ListedFrom(m, r) ==
    CASE m = "tw" -> TwScanRows(<<[code |-> r.code, name |-> r.name]>>, ".TW")
      [] m = "hk" -> HkScanRows(<<[code |-> r.code, name |-> r.name]>>)
      [] m = "kr" -> KrScanRows(<<[Code |-> r.code, Market |-> "KOSPI", Name |-> r.name]>>)
      [] OTHER    -> UsScanRows(<<[Symbol |-> r.code, SecurityName |-> r.name,
                                   ETF |-> r.etf, TestIssue |-> r.test]>>)

ClassifyInit ==
    /\ market \in {"tw", "hk", "kr", "us"}
    /\ StoreInit
    /\ ListIdle
    /\ MainIdle
    /\ NotifyIdle
    /\ arg \in {Some(r) : r \in RawRows}
    /\ ret = None

\* what a function on its own leaves alone
funFrame == <<syncVars, listVars, mainVars, notifyVars, arg>>

ScanRow ==
    /\ ret = None
    /\ ret' = Some(ListedFrom(market, arg[1]))
    /\ UNCHANGED funFrame

ClassifyNext == ScanRow

SpecClassify == ClassifyInit /\ [][ClassifyNext]_vars

(***************************************************************************)
(* The analyzer's loop over the price files (specification SpecAnalysis).  *)
(* A file is described by its ticker, its number of bars, the shape of its *)
(* close series and whether it can be processed: read_csv raises on an     *)
(* unreadable file, df['close'] raises on a file without that column.      *)
(* A return is kept in whole percent (rounded down).                       *)
(***************************************************************************)
\* numbers of bars around the three windows and the length filter
BarCounts == {4, 5, 6, 20, 21, 100, 250, 251, 252, 253, 300}

FileShapes == {"flat", "rising", "falling"}

FileKinds == {"ok", "unreadable", "no_close"}

FilesOf(ticker) == [ticker : {ticker}, n : BarCounts, shape : FileShapes, kind : FileKinds]

\* df['close'].values, df['high'].values, df['low'].values, from 1
CloseAt(f, i) ==
    CASE f.shape = "flat"   -> 100
      [] f.shape = "rising" -> 100 + i
      [] OTHER              -> 1000 - i

HighAt(f, i) == CloseAt(f, i) + 5

LowAt(f, i) == CloseAt(f, i) - 5

SetMax(S) == CHOOSE x \in S : \A y \in S : y <= x

SetMin(S) == CHOOSE x \in S : \A y \in S : x <= y

\* (x - prev_c) / prev_c * 100
Pct(x, prev_c) == ((x - prev_c) * 100) \div prev_c

\* periods = [('Week', 5), ('Month', 20), ('Year', 250)]
periods == [Week |-> 5, Month |-> 20, Year |-> 250]

\* the 0.0 written for a window the series does not cover
ZeroReturns == [High |-> 0, Close |-> 0, Low |-> 0]

\* (mutant) the reference is the first bar of the window, c[-days]
RefIndexInWindow(n, days) == n - days + 1

\* the index, from 1, of c[-(days+1)] in a series of n bars
RefIndex(n, days) == n - days

\* the returns of the last days bars against prev_c = c[-(days+1)]
RealReturns(f, days) ==
    LET prev_c == CloseAt(f, RefIndex(f.n, days))
        last == (f.n - days + 1)..f.n
    IN  [High  |-> Pct(SetMax({HighAt(f, i) : i \in last}), prev_c),
         Close |-> Pct(CloseAt(f, f.n), prev_c),
         Low   |-> Pct(SetMin({LowAt(f, i) : i \in last}), prev_c)]

\* the three columns of one period: zeros if len(c) <= days
PeriodReturns(f, days) ==
    IF f.n <= days THEN ZeroReturns ELSE RealReturns(f, days)

AnalysisRow(f) ==
    [Ticker |-> f.ticker,
     Week   |-> PeriodReturns(f, periods.Week),
     Month  |-> PeriodReturns(f, periods.Month),
     Year   |-> PeriodReturns(f, periods.Year)]

\* (mutant) a file of exactly 252 bars is left out too
TooShortInclusive(n) == n <= 252

\* (mutant) no file is too short
TooShortNever(n) == FALSE

\* if len(df) < 252: continue
TooShort(n) == n < 252

\* the body of the loop for one file: the rows it appends to results
AnalyzeFile(f) ==
    IF f.kind = "unreadable" THEN <<>>
    ELSE IF TooShort(f.n) THEN <<>>
    ELSE IF f.kind = "no_close" THEN <<>>
    ELSE <<AnalysisRow(f)>>

AnalysisInit ==
    /\ market \in {"tw"}
    /\ StoreInit
    /\ ListIdle
    /\ MainIdle
    /\ NotifyIdle
    /\ arg \in {<<a, b>> : a \in FilesOf("A"), b \in FilesOf("B")}
    /\ ret = [next |-> 1, results |-> <<>>]

\* for f in all_files: try ... results.append(row) except: continue
AnalyzeNextFile ==
    /\ ret.next <= Len(arg)
    /\ ret' = [next |-> ret.next + 1, results |-> ret.results \o AnalyzeFile(arg[ret.next])]
    /\ UNCHANGED funFrame

AnalysisNext == AnalyzeNextFile

SpecAnalysis == AnalysisInit /\ [][AnalysisNext]_vars

(***************************************************************************)
(* The analyzer's buckets (specification SpecBuckets): the bucket report   *)
(* build_company_list and the histogram of the chart, applied to the       *)
(* values of one column.  Values are whole percents: every comparison the  *)
(* code makes is against -100, 100 or an edge, all multiples of ten, so    *)
(* 101 stands for every value above 100 (100.01 too) and -101 for every    *)
(* value below -100.                                                       *)
(***************************************************************************)
BIN == 10

XMIN == -100

XMAX == 100

\* the longest column of values
MaxValues == 2

\* the values of a column, around the edges of the top and bottom buckets
PctValues == {-101, -100, -95, 0, 89, 90, 99, 100, 101, 115}

Columns == UNION {[1..n -> PctValues] : n \in 1..MaxValues}

\* np.arange(lo, hi, step): lo, lo + step, ... below hi
arange(lo, hi, step) == [i \in 1..((hi - lo + step - 1) \div step) |-> lo + (i - 1) * step]

\* bins = np.arange(-100, 110, 10): the last edge is 100
bins == arange(-100, 110, 10)

\* np.clip(arr, lo, hi)
clip(arr, lo, hi) ==
    [j \in DOMAIN arr |-> IF arr[j] < lo THEN lo ELSE IF arr[j] > hi THEN hi ELSE arr[j]]

\* np.histogram(arr, bins=edges): a bin holds lo <= v < up, the last bin
\* holds its upper edge too; a value outside the edges is in no bin
histogram(arr, edges) ==
    [i \in 1..(Len(edges) - 1) |->
        Cardinality({j \in DOMAIN arr :
            /\ arr[j] >= edges[i]
            /\ IF i = Len(edges) - 1 THEN arr[j] <= edges[i + 1] ELSE arr[j] < edges[i + 1]})]

\* the mask of bucket i: the indices of the values it picks
BucketMask(arr_pct, lo, up) ==
    IF up = XMAX + BIN
    THEN {j \in DOMAIN arr_pct : arr_pct[j] >= lo}
    ELSE {j \in DOMAIN arr_pct : arr_pct[j] >= lo /\ arr_pct[j] < up}

BucketLabel(up) == IF up = XMAX + BIN THEN ">100%" ELSE "lo%~up%"

\* (mutant) the picked indices, the largest value first
RECURSIVE PickedByMagnitude(_, _)
PickedByMagnitude(arr_pct, mask) ==
    IF mask = {} THEN <<>>
    ELSE LET j == CHOOSE x \in mask :
                      \A y \in mask : arr_pct[y] < arr_pct[x] \/ (arr_pct[y] = arr_pct[x] /\ x <= y)
         IN  <<j>> \o PickedByMagnitude(arr_pct, mask \ {j})

\* picked_indices = np.where(mask)[0]: the indices of the mask, ascending;
\* index j stands for (codes[j], names[j])
RECURSIVE PickedIndices(_, _)
PickedIndices(arr_pct, mask) ==
    IF mask = {} THEN <<>>
    ELSE LET j == CHOOSE x \in mask : \A y \in mask : x <= y
         IN  <<j>> \o PickedIndices(arr_pct, mask \ {j})

\* for i in range(len(edges)-1): the lines of buckets i, i+1, ...; a bucket
\* without values is skipped unless it is the lowest or lies above XMAX
RECURSIVE BucketLines(_, _, _)
BucketLines(arr_pct, edges, i) ==
    IF i > Len(edges) - 1 THEN <<>>
    ELSE LET lo == edges[i]
             up == edges[i + 1]
             mask == BucketMask(arr_pct, lo, up)
             cnt == Cardinality(mask)
             rest == BucketLines(arr_pct, edges, i + 1)
         IN  IF cnt = 0 /\ lo > XMIN /\ up <= XMAX
             THEN rest
             ELSE <<[lab |-> BucketLabel(up), lo |-> lo, up |-> up, cnt |-> cnt,
                     picked |-> mask, links |-> PickedIndices(arr_pct, mask)]>> \o rest

\* the lines of the report under its two header lines: the line "<-100%"
\* is inserted on top when a value is below XMIN
build_company_list(arr_pct, edges) ==
    LET lt == {j \in DOMAIN arr_pct : arr_pct[j] < XMIN}
        ltc == Cardinality(lt)
        lines == BucketLines(arr_pct, edges, 1)
    IN  IF ltc > 0
        THEN <<[lab |-> "<-100%", lo |-> XMIN, up |-> XMIN, cnt |-> ltc, picked |-> lt,
                links |-> PickedIndices(arr_pct, lt)]>> \o lines
        ELSE lines

\* counts of the chart: np.histogram(np.clip(data.values, -100, 100), bins)
ChartCounts(data) == histogram(clip(data, -100, 100), bins)

BucketsInit ==
    /\ market \in {"tw"}
    /\ StoreInit
    /\ ListIdle
    /\ MainIdle
    /\ NotifyIdle
    /\ arg \in Columns
    /\ ret = [chart |-> None, report |-> None]

\* the chart of a column
DrawChart ==
    /\ ret.chart = None
    /\ ret' = [ret EXCEPT !.chart = Some(ChartCounts(arg))]
    /\ UNCHANGED funFrame

\* text = build_company_list(data.values, codes, names, bins, market_id)
BuildCompanyList ==
    /\ ret.report = None
    /\ ret' = [ret EXCEPT !.report = Some(build_company_list(arg, bins))]
    /\ UNCHANGED funFrame

BucketsNext == DrawChart \/ BuildCompanyList

SpecBuckets == BucketsInit /\ [][BucketsNext]_vars

(***************************************************************************)
(* The textual report of one column (specification SpecTextReport): the    *)
(* last loop of run_global_analysis.  arg is the column of df_res, one     *)
(* cell per aggregated row, a cell being a whole percent or null (NaN);    *)
(* the Ticker of row j is written j, so codes = <<1, 2, ...>> in the order *)
(* of the rows of df_res.                                                  *)
(***************************************************************************)
\* the most rows of df_res
MaxRows == 3

\* the cells of a column: null, or a value
ReportCells == {None} \cup {Some(v) : v \in {-101, -95, 0, 99}}

ReportColumns == UNION {[1..n -> ReportCells] : n \in 1..MaxRows}

\* Series.dropna().values: the values of the cells that are not null, in
\* the order of the rows
RECURSIVE dropna(_)
dropna(col) ==
    IF col = <<>> THEN <<>>
    ELSE IF Head(col) = None THEN dropna(Tail(col))
         ELSE <<Head(col)[1]>> \o dropna(Tail(col))

\* codes = df_res['Ticker'].tolist(): one code per row of df_res, null
\* cells included
codes(col) == [j \in DOMAIN col |-> j]

\* picked = [(codes[j], names[j]) for j in picked_indices]
CodesAt(cs, indices) == [i \in DOMAIN indices |-> cs[indices[i]]]

\* text_reports[p_name] for a column with a value: the lines of
\* build_company_list(data.values, codes, names, bins), each with the codes
\* it lists
TextReport(col) ==
    LET data == dropna(col)
        lines == build_company_list(data, bins)
    IN  [i \in DOMAIN lines |->
            [lab |-> lines[i].lab, lo |-> lines[i].lo, up |-> lines[i].up,
             cnt |-> lines[i].cnt, listed |-> CodesAt(codes(col), lines[i].links)]]

TextReportInit ==
    /\ market \in {"tw"}
    /\ StoreInit
    /\ ListIdle
    /\ MainIdle
    /\ NotifyIdle
    /\ arg \in ReportColumns
    /\ ret = None

\* if data.empty: the report is the message that there is no data
TextReportNoData ==
    /\ ret = None
    /\ dropna(arg) = <<>>
    /\ ret' = Some([empty |-> TRUE, lines |-> <<>>])
    /\ UNCHANGED funFrame

\* text = build_company_list(data.values, codes, names, bins, market_id)
TextReportBuilt ==
    /\ ret = None
    /\ dropna(arg) # <<>>
    /\ ret' = Some([empty |-> FALSE, lines |-> TextReport(arg)])
    /\ UNCHANGED funFrame

TextReportNext == TextReportNoData \/ TextReportBuilt

SpecTextReport == TextReportInit /\ [][TextReportNext]_vars

(***************************************************************************)
(* The US download of one item (specification SpecUsDownload):             *)
(* download_stock_data, step by step.  The item either splits at '&' or    *)
(* not, its file is already there (and larger than 1000 bytes) or not, and *)
(* every request to the provider has one of five outcomes.                 *)
(***************************************************************************)
\* an item of the listing and the state of its file
UsItems == [well_formed : BOOLEAN, file_exists : BOOLEAN, ticker_ok : BOOLEAN]

\* what a request, and the handling of its answer, can come to: bars that
\* are written, bars whose handling or writing raises, no bars, a
\* "Rate limited" error, another error
AttemptOutcomes == {"data", "write_raises", "no_data", "rate_limited", "raises"}

\* for attempt in range(2)
us_attempts == 2

\* (mutant) one attempt more
AttemptsLeftOfThree(attempt) == attempt < us_attempts + 1

AttemptsLeft(attempt) == attempt < us_attempts

\* the frame of the call: where it is, the outcomes of its requests, the
\* pauses taken after them, the status returned
UsFrame(at, outcomes, pauses, status) ==
    [at |-> at, outcomes |-> outcomes, pauses |-> pauses, status |-> status]

UsDownloadInit ==
    /\ market \in {"us"}
    /\ StoreInit
    /\ ListIdle
    /\ MainIdle
    /\ NotifyIdle
    /\ arg \in UsItems
    /\ ret = UsFrame("entry", <<>>, <<>>, None)

\* item.split('&', 1) does not give two parts, or yf.Ticker raises: the
\* outer except returns error
UsItemRaises ==
    /\ ret.at = "entry"
    /\ ~arg.well_formed \/ (~arg.file_exists /\ ~arg.ticker_ok)
    /\ ret' = [ret EXCEPT !.at = "returned", !.status = Some("error")]
    /\ UNCHANGED funFrame

\* os.path.exists(out_path) and os.path.getsize(out_path) > 1000
UsFileExists ==
    /\ ret.at = "entry"
    /\ arg.well_formed
    /\ arg.file_exists
    /\ ret' = [ret EXCEPT !.at = "returned", !.status = Some("exists")]
    /\ UNCHANGED funFrame

\* the jitter sleep, tk = yf.Ticker(yf_tkr)
UsEntersLoop ==
    /\ ret.at = "entry"
    /\ arg.well_formed
    /\ ~arg.file_exists
    /\ arg.ticker_ok
    /\ ret' = [ret EXCEPT !.at = "loop"]
    /\ UNCHANGED funFrame

\* tk.history gives bars, they are written to out_path: return success
UsAttemptSucceeds ==
    /\ ret.at = "loop"
    /\ AttemptsLeft(Len(ret.outcomes))
    /\ ret' = [ret EXCEPT !.at = "returned", !.outcomes = Append(@, "data"),
                          !.status = Some("success")]
    /\ UNCHANGED funFrame

\* no bars, or an exception of the request or of the writing, which the
\* inner except swallows; after "Rate limited" the long pause; then the
\* short pause and the next attempt
UsAttemptFails ==
    /\ ret.at = "loop"
    /\ AttemptsLeft(Len(ret.outcomes))
    /\ \E o \in AttemptOutcomes \ {"data"} :
          ret' = [ret EXCEPT !.outcomes = Append(@, o),
                             !.pauses = @ \o (IF o = "rate_limited" THEN <<"20-40s">> ELSE <<>>)
                                          \o <<"2-4s">>]
    /\ UNCHANGED funFrame

\* the loop is exhausted: return empty
UsGivesUp ==
    /\ ret.at = "loop"
    /\ ~AttemptsLeft(Len(ret.outcomes))
    /\ ret' = [ret EXCEPT !.at = "returned", !.status = Some("empty")]
    /\ UNCHANGED funFrame

UsDownloadNext ==
    \/ UsItemRaises
    \/ UsFileExists
    \/ UsEntersLoop
    \/ UsAttemptSucceeds
    \/ UsAttemptFails
    \/ UsGivesUp

\* the worker thread that runs the call is scheduled; every request has a
\* timeout and every pause ends
SpecUsDownload == UsDownloadInit /\ [][UsDownloadNext]_vars /\ WF_vars(UsDownloadNext)

(***************************************************************************)
(* Properties of the synchronisation (specification Spec)                  *)
(***************************************************************************)
Returned == pc = "done" /\ result # None

\* C1: stock_prices holds exactly one row for every (date, symbol) key that
\* was ever upserted, no key has two rows, and the row of a key is the row
\* of the most recent upsert of that key.
C1_OneRowPerKeyLatestValues ==
    /\ \A r \in DOMAIN stock_prices :
          KeyCount(stock_prices, "stock_prices", PrimaryKey("stock_prices", r)) = 1
    /\ \A k \in DOMAIN lastUpsert : Copies(stock_prices, lastUpsert[k]) = 1

\* a key stored by an earlier run was upserted again with other values
C1_Witness ==
    /\ Returned
    /\ \E r \in DOMAIN cur.startRows : \E q \in DOMAIN stock_prices :
          /\ PrimaryKey("stock_prices", q) = PrimaryKey("stock_prices", r)
          /\ q.close # r.close

\* the run is the second of two runs in succession: the first tagged every
\* item of this run's listing success, cache or empty, the clock did not
\* advance in between, and the provider's data did not change
SecondRunUnchanged == Returned /\ cur.repeat /\ day = cur.startDay

\* C2 (as claimed): the second of two runs in succession over unchanged
\* provider data leaves the store unchanged and reports has_changed = false,
\* in both execution environments.
C2_AsClaimed ==
    SecondRunUnchanged =>
        /\ RowCount(stock_prices) = RowCount(cur.startRows)
        /\ ~result[1].has_changed

\* C2 (amended): the second run leaves the rows of the store unchanged in
\* both environments, and reports has_changed = false in local mode.
C2_SecondRunIdempotent ==
    SecondRunUnchanged =>
        /\ stock_prices = cur.startRows
        /\ RowCount(stock_prices) = RowCount(cur.startRows)
        /\ ~IS_GITHUB_ACTIONS => ~result[1].has_changed

\* a second local run answered from the cache, over a store that has rows
C2_Witness ==
    /\ SecondRunUnchanged
    /\ ~IS_GITHUB_ACTIONS
    /\ stats.cache > 0
    /\ RowCount(stock_prices) > 0

\* C3: has_changed is true iff a symbol of this run was tagged success.
C3_HasChangedIffSuccess ==
    Returned => (result[1].has_changed <=> \E t \in DOMAIN task : task[t].status = "success")

\* a run with a success next to a cache hit, an empty or an error
C3_Witness ==
    /\ Returned
    /\ result[1].has_changed
    /\ \E t \in DOMAIN task : task[t].status \in {"cache", "empty", "error"}

\* C10: a run over an empty listing submits no task, writes no price row,
\* does not VACUUM and returns success 0, no failure and has_changed false.
C10_EmptyListingAborts ==
    (Returned /\ items = <<>>) =>
        /\ task = <<>>
        /\ stock_prices = cur.startRows
        /\ vacuums = 0
        /\ result = Some([success |-> 0, fail_list |-> <<>>, has_changed |-> FALSE])

\* an empty listing in the cloud environment, over a store that has rows
C10_Witness ==
    /\ Returned
    /\ items = <<>>
    /\ IS_GITHUB_ACTIONS
    /\ RowCount(stock_prices) > 0

\* a worker took the task t in this step
Started(t) == t \in DOMAIN task' /\ task[t].pc = "submitted" /\ task'[t].pc # "submitted"

\* C12: a task is answered with cache exactly when the mode is local and
\* its cache file exists with an age below DATA_EXPIRY_SECONDS; the cache
\* hit makes no provider request and leaves store and cache files as they
\* were, every other task makes a request; in cloud mode no task is
\* answered with cache and no cache file ever exists.
C12_CacheHitExactlyWhenFresh ==
    /\ [](IS_GITHUB_ACTIONS =>
            /\ cache = << >>
            /\ \A t \in DOMAIN task : task[t].status # "cache")
    /\ [][\A t \in DOMAIN task :
            Started(t) =>
                LET path == csv_path(market, items[t])
                    fresh == /\ ~IS_GITHUB_ACTIONS
                             /\ path \in DOMAIN cache
                             /\ cache[path].age < DATA_EXPIRY_SECONDS
                IN  /\ task'[t].status = "cache" <=> fresh
                    /\ fresh => /\ ~task'[t].requested
                                /\ stock_prices' = stock_prices
                                /\ cache' = cache
                    /\ ~fresh => task'[t].requested]_vars

\* a cache hit on a file one second before its expiry
C12_Witness ==
    \E t \in DOMAIN task :
        /\ task[t].status = "cache"
        /\ cache[csv_path(market, items[t])].age = DATA_EXPIRY_SECONDS - 1

Outcomes == {"success", "cache", "empty", "error"}

\* C13: a run that has submitted its tasks comes to its end (it returns, or
\* raises in its VACUUM); when run_sync has returned, every task has been
\* collected with one outcome of success, cache, empty, error, and the four
\* counters add up to the number of listed symbols.
C13_RunCompletesEveryOutcomeCounted ==
    /\ [](Returned =>
            /\ DOMAIN task = DOMAIN items
            /\ \A t \in DOMAIN task : task[t].pc = "collected" /\ task[t].status \in Outcomes
            /\ \A o \in Outcomes :
                  stats[o] = Cardinality({t \in DOMAIN task : task[t].status = o})
            /\ stats.success + stats.cache + stats.empty + stats.error = Len(items))
    /\ (pc = "pool" ~> pc \in {"done", "raised"})

\* a returned run in which a symbol succeeded that comes after a symbol
\* that ended in error or empty
C13_Witness ==
    /\ Returned
    /\ \E t, u \in DOMAIN task :
          /\ t < u
          /\ task[t].status \in {"error", "empty"}
          /\ task[u].status = "success"

\* the symbols of the run's listing, and how often fail_list holds one
ListedSymbols == {ResultSymbol(market, items[t]) : t \in DOMAIN items}

TimesInFailList(sym) == Cardinality({i \in DOMAIN fail_list : fail_list[i] = sym})

TasksOf(sym, statuses) ==
    {t \in DOMAIN task : ResultSymbol(market, items[t]) = sym /\ task[t].status \in statuses}

StoredSymbols == {r.symbol : r \in DOMAIN stock_prices}

StoredAs(statuses) ==
    {ItemSymbol(market, items[t]) : t \in {u \in DOMAIN task : task[u].status \in statuses}}

\* the first sync of an empty store, over three symbols: the provider had
\* bars for two of them (both stored) and no data for the third
ThreeSymbolSync ==
    /\ Returned
    /\ runs = 1
    /\ Len(items) = 3
    /\ Cardinality(ListedSymbols) = 3
    /\ Cardinality({t \in DOMAIN task : task[t].status = "success"}) = 2
    /\ Cardinality({t \in DOMAIN task : task[t].status = "empty"}) = 1

\* C15 (as claimed): after one sync over A, B, C where the provider has bars
\* for A and B and no data for C, the store has rows for A and B only and
\* the failure list contains C.
C15_AsClaimed ==
    ThreeSymbolSync =>
        /\ StoredSymbols = StoredAs({"success"})
        /\ \A t \in DOMAIN task :
              task[t].status = "empty" => ResultSymbol(market, items[t]) \in Range(fail_list)

\* C15 (amended): after that sync the store has rows for A and B only; C is
\* tagged empty and counted in the empty count, and the failure list does not
\* contain it (the list is empty).
C15_EmptySymbolCountedNotListed ==
    ThreeSymbolSync =>
        /\ StoredSymbols = StoredAs({"success"})
        /\ Cardinality(StoredSymbols) = 2
        /\ stats.empty = 1
        /\ stats.success = 2
        /\ fail_list = <<>>
        /\ result[1].fail_list = <<>>

C15_Witness ==
    /\ ThreeSymbolSync
    /\ RowCount(stock_prices) > 0
    /\ \E t \in DOMAIN task : task[t].status = "empty" /\ task[t].requested

KeysOf(table, name) == {PrimaryKey(name, r) : r \in DOMAIN table}

\* C25: no step of a listing fetch or of a sync run deletes a row: the
\* symbols of stock_info and the (date, symbol) keys of stock_prices only
\* grow, and neither table's row count decreases.
C25_RowsNeverDeleted ==
    [][/\ KeysOf(stock_info, "stock_info") \subseteq KeysOf(stock_info', "stock_info")
       /\ KeysOf(stock_prices, "stock_prices") \subseteq KeysOf(stock_prices', "stock_prices")
       /\ RowCount(stock_info') >= RowCount(stock_info)
       /\ RowCount(stock_prices') >= RowCount(stock_prices)]_vars

\* a later run returned, on a new day, over a listing that no longer names
\* a symbol of stock_info: the symbol and the older bars are still there
C25_Witness ==
    /\ Returned
    /\ runs = 2
    /\ day > 1
    /\ \E r \in DOMAIN stock_info : r.symbol \notin ListedSymbols
    /\ \E r \in DOMAIN stock_prices : r.date = 1 /\ r.symbol \in StoredAs({"success"})
    /\ RowCount(stock_prices) > RowCount(cur.startRows)
    /\ RowCount(cur.startRows) > 0

TasksTagged(o) == {t \in DOMAIN task : task[t].status = o}

\* C26: stats and fail_list change only when a run starts (reset) or when
\* the coordinating thread takes one completed future, which counts that
\* future's outcome once; the result is built from them only when every
\* future has been taken; so, whatever the order of completion, the counts
\* of a returned run are the numbers of tasks per outcome and the failed
\* symbols are those of the tasks tagged error.
C26_CountersOnlyByCoordinator ==
    /\ [][(stats' # stats \/ fail_list' # fail_list) =>
            \/ pc # "pool" /\ stats' = ZeroStats /\ fail_list' = <<>>
            \/ /\ pc = "pool" /\ pc' = "pool"
               /\ \E t \in DOMAIN task :
                     /\ task[t].pc = "done" /\ task'[t].pc = "collected"
                     /\ \A u \in DOMAIN task \ {t} : task'[u] = task[u]
                     /\ stats'[task[t].status] = stats[task[t].status] + 1
                     /\ \A o \in Outcomes \ {task[t].status} : stats'[o] = stats[o]
                     /\ Len(fail_list') = Len(fail_list) + (IF task[t].status = "error" THEN 1 ELSE 0)]_vars
    /\ [][(pc = "pool" /\ result' # result /\ result' # None) =>
            /\ \A t \in DOMAIN task : task[t].pc = "collected"
            /\ result'[1].fail_list = fail_list
            /\ result'[1].success = stats.success + stats.cache]_vars
    /\ [](Returned =>
            /\ \A o \in Outcomes : stats[o] = Cardinality(TasksTagged(o))
            /\ Range(fail_list) = {ResultSymbol(market, items[t]) : t \in TasksTagged("error")})

\* a returned run of three tasks where two had the same outcome and a third
\* ended in error
C26_Witness ==
    /\ Returned
    /\ Len(items) = 3
    /\ stats.success = 2
    /\ stats.error = 1

\* the tasks of the pool that have fetched bars and not yet written them
Writing(path) ==
    {t \in DOMAIN task : task[t].pc = "fetched" /\ csv_path(market, items[t]) = path}

\* C27 (as claimed): the tasks submitted to the pool have pairwise distinct
\* symbols and cache paths, so no two tasks of a run are about to write the
\* same cache file.
C27_AsClaimed ==
    pc = "pool" =>
        /\ \A t, u \in DOMAIN items :
              t # u => /\ ItemSymbol(market, items[t]) # ItemSymbol(market, items[u])
                       /\ csv_path(market, items[t]) # csv_path(market, items[u])
        /\ \A t \in DOMAIN items : Cardinality(Writing(csv_path(market, items[t]))) <= 1

\* the bars of a cache file are in stock_prices
BarsStored(path) ==
    \A i \in DOMAIN cache[path].rows :
        PrimaryKey("stock_prices", cache[path].rows[i]) \in KeysOf(stock_prices, "stock_prices")

\* C30 (as claimed): in local mode every symbol answered with cache-hit has
\* the bars of its cache file in stock_prices, and when a run has returned
\* no fresh cache file holds bars that the store lacks.
C30_AsClaimed ==
    ~IS_GITHUB_ACTIONS =>
        /\ \A t \in DOMAIN task :
              task[t].status = "cache" => BarsStored(csv_path(market, items[t]))
        /\ Returned =>
              \A path \in DOMAIN cache :
                  cache[path].age < DATA_EXPIRY_SECONDS => BarsStored(path)

\* C31 (as claimed): in the HK downloader two listing entries with
\* different 5-digit codes never have the same store symbol, so the rows
\* stored under one symbol come from one listed instrument.
C31_AsClaimed ==
    market = "hk" =>
        /\ \A t, u \in DOMAIN items :
              items[t][1] # items[u][1] =>
                  to_symbol_yf(items[t][1]) # to_symbol_yf(items[u][1])
        /\ \A sym \in StoredSymbols :
              Cardinality({items[t][1] : t \in {u \in DOMAIN items :
                              /\ u \in DOMAIN task
                              /\ task[u].status = "success"
                              /\ to_symbol_yf(items[u][1]) = sym}}) <= 1

(***************************************************************************)
(* Properties of the listing sources (specification SpecListing)           *)
(***************************************************************************)
FetchHasFailed == call.done /\ call.failed # {}

NoEntries == IF market = "us" THEN {} ELSE <<>>

\* the listing saved in the backup file (HK) or the cache file (US)
BackupListing(bk) == IF market = "us" THEN bk[1].data ELSE bk[1]

TwEntriesOf(ok) ==
    UNION { Range(TwScanRows(TwUpstream(url_configs[i].name), url_configs[i].suffix)) :
              i \in {j \in 1..Len(url_configs) : url_configs[j].name \in ok} }

InfoSymbols == {r.symbol : r \in DOMAIN stock_info}

\* C28: for the HK listing, a failing fetch that follows a successful one
\* returns the listing of the most recent successful fetch and leaves the
\* backup file as it was; a successful fetch leaves its listing in the
\* backup file with every symbol of it in stock_info.
C28_HkFailingFetchReturnsLastGood ==
    (market = "hk" /\ call.done) =>
        /\ (call.failed # {} /\ call.lastGood # None) =>
              /\ call.returned = call.lastGood
              /\ backup = call.backupBefore
              /\ backup = call.lastGood
        /\ (call.failed # {} /\ call.lastGood = None) => backup = None
        /\ call.failed = {} =>
              /\ backup = call.returned
              /\ call.lastGood = call.returned
        /\ backup # None =>
              \A i \in DOMAIN backup[1] : to_symbol_yf(backup[1][i][1]) \in InfoSymbols

\* the third fetch fails after successful ones and returns the two-entry
\* listing that the backup file holds
C28_Witness ==
    /\ market = "hk"
    /\ calls = 3
    /\ call.failed # {}
    /\ call.returned # None
    /\ call.returned = call.lastGood
    /\ Len(call.returned[1]) = 2
    /\ backup = call.returned

\* C33: a call of the US listing source changes the cache file only by
\* writing a listing it has just fetched, of at least threshold entries,
\* which it also returns; a fetch of fewer entries leaves the file as it
\* was and returns the listing of the file when there is one, the short
\* fetched listing when there is none.
C33_UsCacheOnlyOverwrittenByFullFetch ==
    [][(market = "us" /\ calls' = calls + 1) =>
          LET fetching == ~UsCacheIsFresh(us_cache, today)
              fetched == UsAllRows(UsSites \ call'.failed)
          IN  /\ us_cache' # us_cache =>
                    /\ fetching
                    /\ Cardinality(fetched) >= threshold
                    /\ us_cache' = Some([date |-> today, data |-> fetched])
                    /\ call'.returned = Some(fetched)
              /\ (fetching /\ Cardinality(fetched) < threshold) =>
                    /\ us_cache' = us_cache
                    /\ us_cache # None => call'.returned = Some(us_cache[1].data)
                    /\ us_cache = None => call'.returned = Some(fetched)
              /\ Cardinality(call'.returned[1]) < threshold =>
                    us_cache = None]_vars

\* a fetch of the next day with a failed request has returned the listing
\* of yesterday's file, which is still in place
C33_Witness ==
    /\ market = "us"
    /\ call.done
    /\ call.failed # {}
    /\ us_cache # None
    /\ us_cache[1].date < today
    /\ Cardinality(us_cache[1].data) >= threshold
    /\ call.returned = Some(us_cache[1].data)

(***************************************************************************)
(* Properties of the orchestrator (specification SpecMain)                 *)
(***************************************************************************)
IsVacuum(op) == op \in {"run_sync.VACUUM", "main.VACUUM"}

\* C4 (as claimed): for every market processed, if has_changed is true or
\* the environment is the cloud one, the store is compacted and afterwards,
\* when a service is available, uploaded.
C4_AsClaimed ==
    \A m \in processed :
        (trail[m].has_changed \/ IS_GITHUB_ACTIONS) =>
            \E i \in DOMAIN trail[m].ops :
                /\ IsVacuum(trail[m].ops[i])
                /\ service => \E j \in DOMAIN trail[m].ops :
                                  j > i /\ trail[m].ops[j] = "main.upload"

\* C4 (amended): for every market processed, run_sync compacts the store
\* iff its listing had entries and has_changed is true or the environment
\* is the cloud one; the orchestrator then compacts and uploads iff a
\* service is available and has_changed is true, and does neither otherwise.
C4_CompactThenUploadOnChange ==
    \A m \in processed :
        trail[m].ops =
            (IF trail[m].listed /\ (trail[m].has_changed \/ IS_GITHUB_ACTIONS)
             THEN <<"run_sync.VACUUM">> ELSE <<>>)
            \o (IF service /\ trail[m].has_changed
                THEN <<"main.VACUUM", "main.upload">> ELSE <<>>)

\* a cloud run with a service whose sync produced no success was processed
C4_Witness ==
    \E m \in processed :
        /\ IS_GITHUB_ACTIONS
        /\ service
        /\ trail[m].listed
        /\ ~trail[m].has_changed

\* C5: for every market processed in local mode with has_changed false,
\* neither run_sync nor the orchestrator compacts or uploads.
C5_NoChangeLocalNoCompactionNoUpload ==
    \A m \in processed :
        (~trail[m].has_changed /\ ~IS_GITHUB_ACTIONS) => trail[m].ops = <<>>

\* a local run with a service, over a listing with entries, without success
C5_Witness ==
    \E m \in processed :
        /\ ~IS_GITHUB_ACTIONS
        /\ service
        /\ trail[m].listed
        /\ ~trail[m].has_changed

\* C6 (as claimed): when main stops, after the loop or on an exception, the
\* iteration of every market of markets_to_run has begun.
C6_AsClaimed ==
    mpc \in {"report", "exit", "raised"} => Range(markets_to_run) \subseteq started

FailedAttempts(u) == {i \in DOMAIN u.outcomes : u.outcomes[i] = "failed"}

\* C16: upload_db_to_drive makes at most retries attempts and sleeps
\* pause_seconds after every failed one; it returns True at the first
\* attempt that succeeds and False when retries attempts have failed; and
\* the call always returns to the market loop, which goes on to the next
\* market (and, after the last one, to the report).
C16_UploadRetriesThenReturns ==
    /\ [](ret # None =>
            LET u == ret[1]
                n == Len(u.outcomes)
            IN  /\ n <= retries
                /\ u.slept = pause_seconds * Cardinality(FailedAttempts(u))
                /\ \A i \in 1..(n - 1) : u.outcomes[i] = "failed"
                /\ u.value = Some(TRUE) <=> (n > 0 /\ u.outcomes[n] # "failed")
                /\ u.value = Some(FALSE) => (n = retries /\ u.outcomes[n] = "failed")
                /\ u.value = None <=> mpc = "upload")
    /\ [][mpc = "upload" /\ mpc' # "upload" =>
            /\ mpc' = "for"
            /\ m_idx' = m_idx + 1
            /\ processed' = processed \cup {market}
            /\ ret'[1].value # None]_vars
    /\ [](mpc = "raised" => (ret = None \/ ret[1].value # None))

\* every attempt of an upload failed, and main went on to the report
C16_Witness ==
    /\ ret # None
    /\ ret[1].value = Some(FALSE)
    /\ ret[1].slept = 15
    /\ mpc = "exit"
    /\ Range(markets_to_run) \subseteq processed

\* C24 (as claimed): when the report stage has run, the Analyzer was
\* invoked for every market whose summary is reported, after the market's
\* change detection (has_changed read from run_sync's result).
C24_AsClaimed ==
    mpc = "exit" =>
        \A k \in DOMAIN all_summaries :
            LET m == all_summaries[k]
            IN  /\ m \in processed
                /\ \E i \in DOMAIN trail[m].ops :
                      trail[m].ops[i] = "analyzer.run_global_analysis"

\* C34: in a run of main the report is dispatched at most once, in the
\* step that leaves the report stage, when the iteration of every market of
\* markets_to_run has completed, the notifier was initialised and a summary
\* was collected; the market of an iteration is appended to the summaries
\* only when its store file exists and is readable.
C34_ReportOnceAfterAllMarkets ==
    /\ [](/\ reports <= 1
          /\ reports = 1 =>
                /\ mpc = "exit"
                /\ notifier
                /\ Len(all_summaries) > 0
                /\ processed = Range(markets_to_run)
          /\ \A m \in Range(module_map) :
                trail[m].db \in {"missing", "unreadable"} =>
                    m \notin Range(all_summaries))
    /\ [][/\ reports' # reports =>
                /\ reports' = reports + 1
                /\ mpc = "report" /\ mpc' = "exit"
                /\ m_idx > Len(markets_to_run)
          /\ all_summaries' # all_summaries =>
                /\ all_summaries' = Append(all_summaries, market)
                /\ mpc = "summary"
                /\ trail'[market].db = "ok"]_vars

\* the report of a run for one market was dispatched after its iteration,
\* with its summary
C34_Witness ==
    /\ reports = 1
    /\ mpc = "exit"
    /\ markets_to_run = <<"tw">>
    /\ processed = {"tw"}
    /\ all_summaries = <<"tw">>
    /\ trail["tw"].db = "ok"

(***************************************************************************)
(* Properties of the notifier (specification SpecNotify)                   *)
(***************************************************************************)
ReportReturned == npc = "idle" /\ success # None

\* C7 (as claimed): when send_stock_report_email has returned, a failed or
\* unconfigured email did not keep the Telegram message from being
\* attempted, and a failed Telegram message did not keep the email from
\* being attempted.
C7_AsClaimed ==
    ReportReturned =>
        /\ email # "sent" => telegram # "none"
        /\ telegram \in {"failed", "skipped"} => email # "none"

\* C8: send_stock_report_email returns true exactly when the email was
\* sent without error, whatever became of the Telegram message.
C8_TrueOnlyIfEmailSent ==
    ReportReturned => (success[1] <=> email = "sent")

\* the email was sent and the Telegram request failed
C8_Witness ==
    /\ ReportReturned
    /\ email = "sent"
    /\ telegram = "failed"
    /\ success[1]

(***************************************************************************)
(* Properties of the classification (specification SpecClassify)           *)
(***************************************************************************)
NameHasKeyword(name, kws) == \E kw \in kws : Contains(StrUpper(name), kw)

\* the keywords the denylist is said to hold
SaidKeywords ==
    { <<"W", "A", "R", "R", "A", "N", "T">>, <<"E", "T", "F">>, <<"R", "E", "I", "T">>,
      <<"P", "R", "E", "F", "E", "R", "R", "E", "D">>, <<"R", "I", "G", "H", "T", "S">>,
      <<"T", "R", "U", "S", "T">>, <<"B", "O", "N", "D">>, <<"F", "U", "N", "D">> }

\* a row with a code of digits that is neither a test issue nor flagged ETF
PlainRow(r) == r.code # <<"-">> /\ r.test = "N" /\ r.etf = "N"

\* C11 (as claimed): in every market a plain row is left out of the
\* listing iff its name contains a keyword of the denylist, in any case.
C11_AsClaimed ==
    (ret # None /\ PlainRow(arg[1])) =>
        (ret[1] = <<>> <=> NameHasKeyword(arg[1].name, SaidKeywords))

\* C11 (amended): a row is listed iff, HK: its upper-cased name holds no
\* keyword of bad_kw and its code has a digit; US: it is no test issue, its
\* ETF flag is not Y and its upper-cased name holds no keyword of
\* exclude_keywords; TW: its code is alphanumeric and at least 4 long, its
\* name is not looked at; KR: always.
C11_ClassificationByMarket ==
    ret # None =>
        (ret[1] # <<>> <=>
            CASE market = "hk" ->
                    /\ ~NameHasKeyword(arg[1].name, bad_kw)
                    /\ \E i \in DOMAIN arg[1].code : arg[1].code[i] \in Digits
              [] market = "us" ->
                    /\ arg[1].test = "N"
                    /\ arg[1].etf # "Y"
                    /\ ~NameHasKeyword(arg[1].name, exclude_keywords)
              [] market = "tw" ->
                    /\ \A i \in DOMAIN arg[1].code : arg[1].code[i] \in AlnumChars
                    /\ Len(arg[1].code) >= 4
              [] OTHER -> TRUE)

\* HK leaves out a plain row for a keyword written in mixed case
C11_Witness ==
    /\ market = "hk"
    /\ ret = Some(<<>>)
    /\ PlainRow(arg[1])
    /\ arg[1].name = <<"W", "a", "r", "r", "a", "n", "t">>

(***************************************************************************)
(* Properties of the analyzer (specification SpecAnalysis)                 *)
(***************************************************************************)
\* the files the loop has been through, and the rows of a ticker
Analyzed == {arg[i] : i \in 1..(ret.next - 1)}

RowsOf(ticker) == {i \in DOMAIN ret.results : ret.results[i].Ticker = ticker}

\* C17: the output of run_global_analysis has a row for a file iff the file
\* has at least 252 bars and is processed without error; a file with fewer
\* bars has no row.
C17_RowIffAtLeast252Bars ==
    \A f \in Analyzed :
        /\ RowsOf(f.ticker) # {} <=> (f.n >= 252 /\ f.kind = "ok")
        /\ Cardinality(RowsOf(f.ticker)) <= 1
        /\ f.n < 252 => RowsOf(f.ticker) = {}

\* a file of 252 bars has a row, one of 251 bars has none
C17_Witness ==
    /\ ret.next > Len(arg)
    /\ arg[1].n = 252 /\ RowsOf("A") # {}
    /\ arg[2].n = 251 /\ arg[2].kind = "ok" /\ RowsOf("B") = {}

\* C18 (as claimed): for each window, a file with no more bars than the
\* window has a row in the output, with 0.0 in that window's three columns.
C18_AsClaimed ==
    \A f \in Analyzed : \A p \in DOMAIN periods :
        (f.kind = "ok" /\ f.n <= periods[p]) =>
            \E i \in RowsOf(f.ticker) : ret.results[i][p] = ZeroReturns

\* C18 (amended): a file with no more bars than a window (5, 20 or 250) has
\* no row in the output, since it has fewer than 252 bars; every row of the
\* output comes from a file longer than all three windows and carries, in
\* each window's columns, the returns computed against prev_c.
C18_ShortHistoryHasNoRow ==
    /\ \A f \in Analyzed : \A p \in DOMAIN periods :
          f.n <= periods[p] => RowsOf(f.ticker) = {}
    /\ \A i \in DOMAIN ret.results :
          \E f \in Analyzed :
              /\ f.ticker = ret.results[i].Ticker
              /\ \A p \in DOMAIN periods :
                    /\ f.n > periods[p]
                    /\ ret.results[i][p] = RealReturns(f, periods[p])

\* a readable file of 250 bars has no row, next to a file that has one
C18_Witness ==
    /\ ret.next > Len(arg)
    /\ arg[1].n = 250 /\ arg[1].kind = "ok" /\ RowsOf("A") = {}
    /\ arg[2].n = 300 /\ RowsOf("B") # {}

\* the file a row of the output was computed from
FileOfRow(i) == CHOOSE f \in Analyzed : f.ticker = ret.results[i].Ticker

\* C23: for each window w of a row, the reference price is the close w bars
\* before the most recent bar; High is the return of the highest high of
\* the last w bars, Close of the most recent close, Low of the lowest low
\* of the last w bars, each (value - reference) / reference * 100.
C23_ReturnsAgainstCloseBeforeWindow ==
    \A i \in DOMAIN ret.results : \A p \in DOMAIN periods :
        LET f == FileOfRow(i)
            w == periods[p]
            reference == CloseAt(f, f.n - w)
            window == {k \in 1..f.n : k > f.n - w}
            top == SetMax({HighAt(f, k) : k \in window})
            bottom == SetMin({LowAt(f, k) : k \in window})
        IN  /\ Cardinality(window) = w
            /\ ret.results[i][p].High = ((top - reference) * 100) \div reference
            /\ ret.results[i][p].Close = ((CloseAt(f, f.n) - reference) * 100) \div reference
            /\ ret.results[i][p].Low = ((bottom - reference) * 100) \div reference

\* a row of a rising series of 300 bars: the Year return is positive and
\* below the return of the highest high
C23_Witness ==
    /\ ret.next > Len(arg)
    /\ arg[1].n = 300 /\ arg[1].shape = "rising" /\ arg[1].kind = "ok"
    /\ \E i \in RowsOf("A") :
          /\ ret.results[i].Year.Close > 0
          /\ ret.results[i].Year.High > ret.results[i].Year.Close
          /\ ret.results[i].Week.Close < ret.results[i].Year.Close

(***************************************************************************)
(* Properties of the US download (specification SpecUsDownload)            *)
(***************************************************************************)
FailedRequests == {i \in DOMAIN ret.outcomes : ret.outcomes[i] # "data"}

PausesOf(kind) == {i \in DOMAIN ret.pauses : ret.pauses[i] = kind}

\* C29: download_stock_data makes at most 2 requests; every request that
\* raises or gives no bars is followed by a pause (a longer one first when
\* rate limited) and by at most one more request; after two such requests
\* the status is empty; and the call always ends, with exactly one of
\* success, exists, empty, error.
C29_AtMostTwoRequestsThenEmpty ==
    /\ [](/\ Len(ret.outcomes) <= 2
          /\ \A i \in FailedRequests : i <= 2 /\ \A k \in 1..(i - 1) : k \in FailedRequests
          /\ Cardinality(PausesOf("2-4s")) = Cardinality(FailedRequests)
          /\ Cardinality(PausesOf("20-40s")) =
                 Cardinality({i \in DOMAIN ret.outcomes : ret.outcomes[i] = "rate_limited"})
          /\ ret.status # None <=> ret.at = "returned"
          /\ ret.status # None =>
                /\ ret.status[1] \in {"success", "exists", "empty", "error"}
                /\ ret.status[1] = "empty" <=> Cardinality(FailedRequests) = 2
                /\ ret.status[1] = "success" <=>
                       (ret.outcomes # <<>> /\ ret.outcomes[Len(ret.outcomes)] = "data")
                /\ ret.status[1] \in {"exists", "error"} => ret.outcomes = <<>>)
    /\ [][ret.status # None => ret' = ret]_vars
    /\ <>(ret.status # None)

\* a rate-limited request, then one without bars: tagged empty after both
\* pauses
C29_Witness ==
    /\ ret.status = Some("empty")
    /\ ret.outcomes = <<"rate_limited", "no_data">>
    /\ ret.pauses = <<"20-40s", "2-4s", "2-4s">>

(***************************************************************************)
(* Properties of the buckets (specification SpecBuckets)                   *)
(***************************************************************************)
ReportLines == ret.report[1]

LinesPicking(j) == {i \in DOMAIN ReportLines : j \in ReportLines[i].picked}

\* the index of the top normal bucket, 90%~100%
TopBucket == Len(bins) - 1

\* C19 (as claimed): in the report and in the chart a value of exactly 100
\* is counted in the bucket 90%~100% and in no overflow bucket, and a value
\* above 100 is reported under ">100%" only.
C19_AsClaimed ==
    (ret.report # None /\ ret.chart # None) =>
        /\ \A j \in DOMAIN arg :
              arg[j] = 100 =>
                  /\ LinesPicking(j) # {}
                  /\ \A i \in LinesPicking(j) :
                        ReportLines[i].lo = 90 /\ ReportLines[i].up = 100
        /\ \A j \in DOMAIN arg :
              arg[j] > 100 =>
                  /\ LinesPicking(j) # {}
                  /\ \A i \in LinesPicking(j) : ReportLines[i].lab = ">100%"
        /\ ret.chart[1][TopBucket] =
               Cardinality({j \in DOMAIN arg : arg[j] >= 90 /\ arg[j] <= 100})

RECURSIVE SumCnt(_)
SumCnt(lines) == IF lines = <<>> THEN 0 ELSE Head(lines).cnt + SumCnt(Tail(lines))

\* C20 (as claimed): the counts of all lines of the report add up to the
\* number of values passed in, and every value is picked by one line.
C20_AsClaimed ==
    ret.report # None =>
        /\ SumCnt(ReportLines) = Len(arg)
        /\ \A j \in DOMAIN arg : Cardinality(LinesPicking(j)) = 1

\* C21 (as claimed): every bucket of the normal range without a value has
\* no line in the report, the lowest bucket included, while ">100%" and
\* "<-100%" have a line whenever a value falls in them.
C21_AsClaimed ==
    ret.report # None =>
        /\ \A i \in DOMAIN ReportLines : ReportLines[i].cnt > 0
        /\ (\E j \in DOMAIN arg : arg[j] > XMAX) <=>
               (\E i \in DOMAIN ReportLines : ReportLines[i].lab = ">100%")
        /\ (\E j \in DOMAIN arg : arg[j] < XMIN) <=>
               (\E i \in DOMAIN ReportLines : ReportLines[i].lab = "<-100%")

\* C22: the lines of the report are in ascending order of return, the line
\* "<-100%" before every bucket, and the symbols of a line are in the order
\* of the input, whatever their returns.
C22_BucketsAscendingSymbolsInInputOrder ==
    ret.report # None =>
        /\ \A i, k \in DOMAIN ReportLines :
              i < k => /\ ReportLines[i].lo <= ReportLines[k].lo
                       /\ ReportLines[i].up <= ReportLines[k].lo
                       /\ ReportLines[k].lab # "<-100%"
        /\ \A i \in DOMAIN ReportLines :
              LET l == ReportLines[i].links
              IN  /\ Range(l) = ReportLines[i].picked
                  /\ \A a, b \in DOMAIN l : a < b => l[a] < l[b]

\* a line with two symbols, listed as in the input although the first has
\* the larger return
C22_Witness ==
    /\ ret.report # None
    /\ \E i \in DOMAIN ReportLines :
          /\ ReportLines[i].links = <<1, 2>>
          /\ arg[1] > arg[2]

(***************************************************************************)
(* Properties of the textual report of a column (specification             *)
(* SpecTextReport)                                                         *)
(***************************************************************************)
\* a value lies in the range of a line of the report
InRangeOf(line, v) ==
    IF line.lab = "<-100%" THEN v < XMIN
    ELSE IF line.lab = ">100%" THEN v >= line.lo
    ELSE v >= line.lo /\ v < line.up

\* C32 (as claimed): every symbol listed in a bucket of the textual report
\* is a symbol whose own value for the column lies in the range of that
\* bucket, also when rows with a null value were dropped before binning.
C32_AsClaimed ==
    ret # None =>
        \A i \in DOMAIN ret[1].lines :
            \A k \in DOMAIN ret[1].lines[i].listed :
                LET j == ret[1].lines[i].listed[k]
                IN  /\ arg[j] # None
                    /\ InRangeOf(ret[1].lines[i], arg[j][1])

\* C32, without a null cell in the column: the listed symbols have their
\* value in the range of their bucket.
C32_HoldsWithoutNull ==
    (ret # None /\ \A j \in DOMAIN arg : arg[j] # None) =>
        \A i \in DOMAIN ret[1].lines :
            \A k \in DOMAIN ret[1].lines[i].listed :
                InRangeOf(ret[1].lines[i], arg[ret[1].lines[i].listed[k]][1])

====
